---- MODULE Spec2Model ----
(***************************************************************************)
(* The move-granules task (tasks/move-granules/index.js): classification   *)
(* of granule files against the collection's file rules, the move of every *)
(* staged file to its final location under a duplicate-handling policy,    *)
(* and the rewrite of the granule's CMR metadata file.                     *)
(*                                                                         *)
(* Object storage is a function from object ids [Bucket, Key] to objects.  *)
(* A key is [dir, name]; a file name is [base, vers] where vers is the     *)
(* sequence of ".v<timestamp>" suffixes appended to the base name.         *)
(*                                                                         *)
(* runs holds the outcome of the earlier invocations of the same event and *)
(* s3start the storage before the first one.                               *)
(***************************************************************************)
EXTENDS Integers, Sequences, FiniteSets, TLC

VARIABLES event, s3, pc, err, cmrFiles, targeted, granules, moves, joined, cmrpc, oplog,
          runs, s3start

vars == <<event, s3, pc, err, cmrFiles, targeted, granules, moves, joined, cmrpc, oplog,
         runs, s3start>>

(***************************************************************************)
(* Bounds of the model.                                                    *)
(***************************************************************************)
\* largest timestamp a rename may append
MaxTs == 2
\* longest collection.files rule list drawn by InitClassify
MaxRules == 2
\* number of invocations of moveGranules on one event
MaxRuns == 2

(***************************************************************************)
(* Values.                                                                 *)
(***************************************************************************)
Undefined == "<undefined>"

\* a || b of JavaScript on strings: undefined and '' are falsy
Truthy(x) == x \notin {Undefined, ""}

Or2(a, b) == IF Truthy(a) THEN a ELSE b

N(base, vers) == [base |-> base, vers |-> vers]

NoName == N(Undefined, <<>>)

NoPath == [dir |-> Undefined, name |-> NoName]

NoUri == <<>>

Id(bucket, key) == [Bucket |-> bucket, Key |-> key]

K(dir, name) == [dir |-> dir, name |-> name]

\* `s3://${bucket}/${key}`
buildS3Uri(bucket, key) == <<bucket, key.dir, key.name>>

parseS3Uri(uri) == [Bucket |-> uri[1], Key |-> [dir |-> uri[2], name |-> uri[3]]]

\* path.basename of an S3 URI
basename(uri) == uri[3]

\* path.join(urlPath, file.name)
pathJoin(urlPath, name) == [dir |-> urlPath, name |-> name]

IsPrefix(s, t) == Len(s) <= Len(t) /\ SubSeq(t, 1, Len(s)) = s

(***************************************************************************)
(* Object storage.                                                         *)
(***************************************************************************)
Obj(data, acl) == [data |-> data, urls |-> <<>>, acl |-> acl]

s3ObjectExists(st, id) == id \in DOMAIN st

PutObject(st, id, obj) ==
  [x \in (DOMAIN st) \cup {id} |-> IF x = id THEN obj ELSE st[x]]

deleteS3Object(st, id) == [x \in (DOMAIN st) \ {id} |-> st[x]]

\* CKSUM of an object's content: distinct contents may share a checksum
Cksum(data) == data % 2

checksumS3Objects(st, id) == Cksum(st[id].data)

(***************************************************************************)
(* Errors.                                                                 *)
(***************************************************************************)
Error(name, msg) == [name |-> name, msg |-> msg]

NoError == Error("none", "")

(***************************************************************************)
(* Files and granules.  A granules object (granuleId -> granule) is the    *)
(* sequence of its values in key insertion order.                          *)
(***************************************************************************)
BucketName(name) == [name |-> name, type |-> Undefined]

File(name, bucket, uri, url_path, fileStagingDir) ==
  [name |-> name, bucket |-> BucketName(bucket), filename |-> uri,
   filepath |-> NoPath, url_path |-> url_path,
   fileStagingDir |-> fileStagingDir, duplicate_found |-> FALSE]

Granule(granuleId, files) == [granuleId |-> granuleId, files |-> files]

fileObjectFromS3URI(s3URI) ==
  File(basename(s3URI), parseS3Uri(s3URI).Bucket, s3URI, Undefined, Undefined)

HasKey(object, granuleId) ==
  \E i \in 1..Len(object) : object[i].granuleId = granuleId

IndexOf(object, granuleId) ==
  CHOOSE i \in 1..Len(object) : object[i].granuleId = granuleId

\* object[granuleId] = g
SetKey(object, g) ==
  IF HasKey(object, g.granuleId)
    THEN [object EXCEPT ![IndexOf(object, g.granuleId)] = g]
    ELSE Append(object, g)

RECURSIVE KeyBy(_, _)
KeyBy(gs, object) ==
  IF gs = <<>> THEN object ELSE KeyBy(Tail(gs), SetKey(object, Head(gs)))

RECURSIVE Flatten(_)
Flatten(seqs) == IF seqs = <<>> THEN <<>> ELSE Head(seqs) \o Flatten(Tail(seqs))

\* the file name matches /.*\.cmr\.xml$/
IsCmrName(name) ==
  name.base \in {"G1.cmr.xml", "G2.cmr.xml", "A.hdf.cmr.xml"} /\ name.vers = <<>>

\* getGranuleId(uri, regex): the first capture group of the extraction
\* regex applied to the base name of the URI
getGranuleId(uri, regex) == regex[basename(uri).base]

\* filenames of the files of the granules of the roster
FilesHash(gs) ==
  UNION {{gs[i].files[j].filename : j \in 1..Len(gs[i].files)} : i \in 1..Len(gs)}

RECURSIVE AddInputs(_, _, _, _)
AddInputs(input, granulesHash, filesHash, regex) ==
  IF input = <<>> THEN [error |-> NoError, granules |-> granulesHash]
  ELSE LET f == Head(input) IN
    IF f # NoUri /\ f \notin filesHash
      THEN LET granuleId == getGranuleId(f, regex) IN
        IF ~HasKey(granulesHash, granuleId)
          THEN [error |-> Error("TypeError", "files of undefined"),
                granules |-> granulesHash]
          ELSE LET i == IndexOf(granulesHash, granuleId) IN
            AddInputs(Tail(input),
              [granulesHash EXCEPT ![i].files = Append(@, fileObjectFromS3URI(f))],
              filesHash, regex)
      ELSE AddInputs(Tail(input), granulesHash, filesHash, regex)

\* addInputFilesToGranules with an empty hash list of files
addInputFilesAlways(input, gs, regex) ==
  AddInputs(input, KeyBy(gs, <<>>), {}, regex)

addInputFilesToGranules(input, gs, regex) ==
  AddInputs(input, KeyBy(gs, <<>>), FilesHash(gs), regex)

(***************************************************************************)
(* Classification of a file against collection.files.                      *)
(***************************************************************************)
\* the name without its ".v<timestamp>" suffixes
unversionFilename(name) == N(name.base, <<>>)

\* name.match(regex): a regex is the set of base names it accepts, and is
\* anchored at the end ($) or not; an anchored regex rejects a suffixed name
RegexMatch(name, regex) ==
  name.base \in regex.bases /\ (regex.anchored => name.vers = <<>>)

MatchFileSpecs(file, fileSpecs) ==
  SelectSeq(fileSpecs, LAMBDA cf : RegexMatch(unversionFilename(file.name), cf.regex))

\* validateMatch without the check for several matches
validateMatchFirstWins(match, bkts) ==
  IF Len(match) = 0 THEN Error("InvalidArgument", "did not match any collection.regexp")
  ELSE IF match[1].bucket \notin DOMAIN bkts
    THEN Error("InvalidArgument", "Collection config specifies a bucket key")
  ELSE NoError

\* validateMatch without the check of the bucket key
validateMatchAnyBucket(match, bkts) ==
  IF Len(match) > 1 THEN Error("InvalidArgument", "matched more than one collection.regexp")
  ELSE IF Len(match) = 0 THEN Error("InvalidArgument", "did not match any collection.regexp")
  ELSE NoError

validateMatch(match, bkts) ==
  IF Len(match) > 1 THEN Error("InvalidArgument", "matched more than one collection.regexp")
  ELSE IF Len(match) = 0 THEN Error("InvalidArgument", "did not match any collection.regexp")
  ELSE IF match[1].bucket \notin DOMAIN bkts
    THEN Error("InvalidArgument", "Collection config specifies a bucket key")
  ELSE NoError

\* urlPathTemplate(template, context): a template is one token or a static
\* string; the value of the token is read from the context at its path, and
\* a token without a value there does not resolve (Undefined: the call throws)
urlPathTemplate(template, context) ==
  IF template = "{granule.granuleId}" THEN context.granule.granuleId
  ELSE IF template = "{cmrMetadata.ShortName}" THEN context.cmrMetadata.ShortName
  ELSE IF template = "{cmrMetadata.Granule.Collection.ShortName}"
    THEN context.cmrMetadata.CollectionShortName
  ELSE template

\* the context of no CMR file: cmrMetadata is {}
NoMetadata ==
  [data |-> 0, root |-> Undefined, ShortName |-> Undefined,
   CollectionShortName |-> Undefined, Granule |-> <<>>]

\* the url_path expanded as if the granule had no CMR file
UrlPathWithoutMetadata(file, granule, collection, cmrFs) ==
  LET match == MatchFileSpecs(file, collection.files)
      URLPathTemplate ==
        Or2(file.url_path, Or2(match[1].url_path, Or2(collection.url_path, "")))
  IN urlPathTemplate(URLPathTemplate,
       [file |-> file, granule |-> granule, cmrMetadata |-> NoMetadata])

\* the url_path with the template of the rule before that of the file
UrlPathRuleFirst(file, granule, collection, cmrFs) ==
  LET match == MatchFileSpecs(file, collection.files)
      URLPathTemplate ==
        Or2(match[1].url_path, Or2(file.url_path, Or2(collection.url_path, "")))
      cmrFile == SelectSeq(cmrFs, LAMBDA f : f.granuleId = granule.granuleId)
  IN urlPathTemplate(URLPathTemplate,
       [file |-> file, granule |-> granule,
        cmrMetadata |-> IF cmrFile # <<>> THEN cmrFile[1].metadataObject ELSE NoMetadata])

\* the expanded url_path of a file that has one matching rule
UrlPath(file, granule, collection, cmrFs) ==
  LET match == MatchFileSpecs(file, collection.files)
      URLPathTemplate ==
        Or2(file.url_path, Or2(match[1].url_path, Or2(collection.url_path, "")))
      cmrFile == SelectSeq(cmrFs, LAMBDA f : f.granuleId = granule.granuleId)
  IN urlPathTemplate(URLPathTemplate,
       [file |-> file, granule |-> granule,
        cmrMetadata |-> IF cmrFile # <<>> THEN cmrFile[1].metadataObject ELSE NoMetadata])

\* the body of the files.forEach of updateGranuleMetadata, after validateMatch
TargetFile(file, granule, collection, cmrFs, bkts) ==
  LET match == MatchFileSpecs(file, collection.files)
      urlPath == UrlPath(file, granule, collection, cmrFs)
      bucket == bkts[match[1].bucket]
      filepath == pathJoin(urlPath, file.name)
  IN [file EXCEPT !.bucket = bucket, !.filepath = filepath,
                  !.filename = buildS3Uri(bucket.name, filepath)]

\* what the body of the files.forEach throws for a file: the error of
\* validateMatch, the TypeError of reading a property of undefined
\* (match[0] of no match, the bucket of an unknown key), or the error of
\* urlPathTemplate
FileError(file, granule, collection, cmrFs, bkts) ==
  LET match == MatchFileSpecs(file, collection.files)
      invalid == validateMatch(match, bkts)
  IN IF invalid # NoError THEN invalid
     ELSE IF match = <<>> THEN Error("TypeError", "url_path of undefined")
     ELSE IF UrlPath(file, granule, collection, cmrFs) = Undefined
       THEN Error("Error", "Could not resolve path template")
     ELSE IF match[1].bucket \notin DOMAIN bkts THEN Error("TypeError", "name of undefined")
     ELSE NoError

\* updateGranuleMetadata leaving out the files that do not classify
updateGranuleMetadataSkipping(granulesObject, collection, cmrFs, bkts) ==
  [error |-> NoError,
   granules |->
     [i \in 1..Len(granulesObject) |->
       [granulesObject[i] EXCEPT !.files =
         LET valid == SelectSeq(granulesObject[i].files,
                                LAMBDA f : FileError(f, granulesObject[i], collection,
                                                     cmrFs, bkts) = NoError)
         IN [j \in 1..Len(valid) |->
              TargetFile(valid[j], granulesObject[i], collection, cmrFs, bkts)]]]]

updateGranuleMetadata(granulesObject, collection, cmrFs, bkts) ==
  LET pairs == UNION {{<<i, j>> : j \in 1..Len(granulesObject[i].files)} :
                        i \in 1..Len(granulesObject)}
      errorOf(p) == FileError(granulesObject[p[1]].files[p[2]], granulesObject[p[1]],
                              collection, cmrFs, bkts)
      bad == {p \in pairs : errorOf(p) # NoError}
      first == CHOOSE p \in bad : \A q \in bad :
                 p[1] < q[1] \/ (p[1] = q[1] /\ p[2] <= q[2])
  IN IF bad # {}
       THEN [error |-> errorOf(first), granules |-> <<>>]
       ELSE [error |-> NoError,
             granules |->
               [i \in 1..Len(granulesObject) |->
                 [granulesObject[i] EXCEPT !.files =
                   [j \in 1..Len(granulesObject[i].files) |->
                     TargetFile(granulesObject[i].files[j], granulesObject[i],
                                collection, cmrFs, bkts)]]]]

(***************************************************************************)
(* Policy and storage helpers of the mover.                                *)
(***************************************************************************)
\* get(event, 'collection') reads the top level of the event, not the
\* collection of the config; of an event without one it reads no property
duplicateHandlingType(ev) ==
  LET config == ev.config
      collection == ev.collection
      collectionHandling ==
        IF collection.duplicateHandling = Undefined THEN "error"
        ELSE collection.duplicateHandling
      duplicateHandling ==
        IF config.duplicateHandling # Undefined THEN config.duplicateHandling
        ELSE collectionHandling
  IN IF ev.cumulus_config.cumulus_context.forceDuplicateOverwrite = TRUE
       THEN "replace" ELSE duplicateHandling

\* moveGranuleFile(source, target, options): copy to the target, delete the source
moveGranuleFile(st, source, target, acl) ==
  deleteS3Object(PutObject(st, target, [st[source] EXCEPT !.acl = acl]), source)

\* the key with one more ".v<timestamp>" suffix
VersionedKey(key, ts) ==
  [key EXCEPT !.name = N(key.name.base, Append(key.name.vers, ts))]

\* renameS3FileWithTimestamp(bucket, key), the timestamp being ts
renameS3FileWithTimestamp(st, id, ts) ==
  moveGranuleFile(st, id, Id(id.Bucket, VersionedKey(id.Key, ts)), st[id].acl)

\* keys that start with `${key}.v`
HasVersionPrefix(key, other) ==
  /\ other.dir = key.dir
  /\ other.name.base = key.name.base
  /\ IsPrefix(key.name.vers, other.name.vers)
  /\ Len(other.name.vers) > Len(key.name.vers)

\* the listing order of S3: by key, here by the suffixes of the name
KeyBefore(a, b) ==
  \/ Len(a.name.vers) < Len(b.name.vers) /\ IsPrefix(a.name.vers, b.name.vers)
  \/ \E n \in 1..Len(a.name.vers) :
       /\ n <= Len(b.name.vers)
       /\ SubSeq(a.name.vers, 1, n - 1) = SubSeq(b.name.vers, 1, n - 1)
       /\ a.name.vers[n] < b.name.vers[n]

RECURSIVE SortKeys(_)
SortKeys(keys) ==
  IF keys = {} THEN <<>>
  ELSE LET k == CHOOSE x \in keys : \A y \in keys \ {x} : ~KeyBefore(y, x)
       IN <<k>> \o SortKeys(keys \ {k})

\* getRenamedS3File(bucket, key): list of the objects with prefix `${key}.v`
getRenamedS3File(st, id) ==
  LET found == {x \in DOMAIN st : x.Bucket = id.Bucket /\ HasVersionPrefix(id.Key, x.Key)}
      keys == SortKeys({x.Key : x \in found})
  IN [i \in 1..Len(keys) |-> Id(id.Bucket, keys[i])]

(***************************************************************************)
(* moveFileRequest: the request for one file, from its call to its result. *)
(***************************************************************************)
SourceOf(file, sourceBucket) ==
  Id(sourceBucket, K(Or2(file.fileStagingDir, "file-staging"), file.name))

TargetOf(file) == Id(file.bucket.name, file.filepath)

AclOf(file) == IF file.bucket.type = "public" THEN "public-read" ELSE "private"

\* the request up to its first await (s3ObjectExists)
NewMove(file, sourceBucket, st) ==
  [file |-> file,
   source |-> SourceOf(file, sourceBucket),
   target |-> TargetOf(file),
   fileMoved |-> [file EXCEPT !.fileStagingDir = Undefined],
   pc |-> "exists",
   exists |-> FALSE,
   existingFileSum |-> -1,
   stagedFileSum |-> -1,
   result |-> <<>>,
   error |-> NoError,
   before |-> st]

\* the descriptor of a renamed file
RenamedFile(file, f) ==
  [name |-> f.Key.name, bucket |-> file.bucket,
   filename |-> buildS3Uri(f.Bucket, f.Key), filepath |-> f.Key,
   url_path |-> file.url_path, fileStagingDir |-> Undefined,
   duplicate_found |-> FALSE]

MoveResult(m, renamedFiles) ==
  <<m.fileMoved>> \o [i \in 1..Len(renamedFiles) |-> RenamedFile(m.file, renamedFiles[i])]

(***************************************************************************)
(* moveFilesForAllGranules: the join of the requests of each granule.      *)
(***************************************************************************)
\* filesToMove without the filter on the name: the CMR files too
FilesToMoveAll(granule) == granule.files

FilesToMove(granule) == SelectSeq(granule.files, LAMBDA file : ~IsCmrName(file.name))

CmrFileOf(granule) == SelectSeq(granule.files, LAMBDA file : IsCmrName(file.name))

MoveKeys(gs) ==
  UNION {{<<i, j>> : j \in 1..Len(FilesToMove(gs[i]))} : i \in 1..Len(gs)}

\* granules all of whose requests have resolved
Resolved(tg, mv) ==
  {i \in 1..Len(tg) :
     \A j \in 1..Len(FilesToMove(tg[i])) : mv[<<i, j>>].pc = "resolved"}

\* granule.files = cmrFile.concat(flatten(filesMoved)): the CMR files first
GranulesAfterCmrFirst(gr, tg, mv, newly) ==
  [i \in 1..Len(gr) |->
     IF i \in newly
       THEN [gr[i] EXCEPT !.files =
               CmrFileOf(tg[i])
                 \o Flatten([j \in 1..Len(FilesToMove(tg[i])) |-> mv[<<i, j>>].result])]
       ELSE gr[i]]

\* granule.files = flatten(filesMoved).concat(cmrFile), for the granules of newly
GranulesAfter(gr, tg, mv, newly) ==
  [i \in 1..Len(gr) |->
     IF i \in newly
       THEN [gr[i] EXCEPT !.files =
               Flatten([j \in 1..Len(FilesToMove(tg[i])) |-> mv[<<i, j>>].result])
                 \o CmrFileOf(tg[i])]
       ELSE gr[i]]

(***************************************************************************)
(* updateCmrFileAccessURLs: the rewrite of one CMR file up to its upload.  *)
(***************************************************************************)
\* the OnlineAccessURL entries without the test of the bucket type
AccessURLsOfAll(files) ==
  [i \in 1..Len(files) |->
     [via |-> IF files[i].bucket.type = "protected" THEN "distribution" ELSE "s3",
      bucket |-> files[i].bucket.name,
      filepath |-> files[i].filepath]]

\* the OnlineAccessURL entries of the files of a granule
AccessURLs(files) ==
  LET listed == SelectSeq(files, LAMBDA file : file.bucket.type \in {"protected", "public"})
  IN [i \in 1..Len(listed) |->
        [via |-> IF listed[i].bucket.type = "protected" THEN "distribution" ELSE "s3",
         bucket |-> listed[i].bucket.name,
         filepath |-> listed[i].filepath]]

\* the file name (an S3 URI) matches /.*\.cmr\.xml$/
IsCmrUri(uri) == uri # NoUri /\ IsCmrName(basename(uri))

\* a property of the Granule element: an element of text, or the
\* OnlineAccessURLs element with its OnlineAccessURL entries
Prop(key, text, urls) == [key |-> key, value |-> [text |-> text, OnlineAccessURL |-> urls]]

\* the object {}
EmptyObject == [text |-> Undefined, OnlineAccessURL |-> <<>>]

HasProp(object, key) == \E n \in 1..Len(object) : object[n].key = key

\* object[key] = value: a new key comes last, a key of the object keeps its place
SetProp(object, key, value) ==
  IF HasProp(object, key)
    THEN [n \in 1..Len(object) |->
            IF object[n].key = key THEN [object[n] EXCEPT !.value = value] ELSE object[n]]
    ELSE Append(object, [key |-> key, value |-> value])

GetProp(object, key) == object[CHOOSE n \in 1..Len(object) : object[n].key = key].value

\* updatedGranule.OnlineAccessURLs = {} at the keys OnlineResources and Orderable
ResetAt(updatedGranule, key) ==
  IF key \in {"OnlineResources", "Orderable"}
    THEN SetProp(updatedGranule, "OnlineAccessURLs", EmptyObject)
    ELSE updatedGranule

\* one round of the forEach: the reset, then updatedGranule[key] = metadataGranule[key]
CopyKey(updatedGranule, prop) ==
  SetProp(ResetAt(updatedGranule, prop.key), prop.key, prop.value)

\* the forEach over Object.keys(metadataGranule)
RECURSIVE CopyKeys(_, _)
CopyKeys(metadataGranule, updatedGranule) ==
  IF metadataGranule = <<>> THEN updatedGranule
  ELSE CopyKeys(Tail(metadataGranule), CopyKey(updatedGranule, Head(metadataGranule)))

\* updatedGranule.OnlineAccessURLs.OnlineAccessURL = urls: a TypeError when
\* updatedGranule has no OnlineAccessURLs
SetURLs(updatedGranule, urls) ==
  IF ~HasProp(updatedGranule, "OnlineAccessURLs")
    THEN [error |-> Error("TypeError", "Cannot set property 'OnlineAccessURL' of undefined"),
          Granule |-> updatedGranule]
    ELSE [error |-> NoError,
          Granule |->
            SetProp(updatedGranule, "OnlineAccessURLs",
              [GetProp(updatedGranule, "OnlineAccessURLs") EXCEPT !.OnlineAccessURL = urls])]

\* updatedGranule of updateCmrFileAccessURLs: the keys copied, then the
\* new entries set
Splice(metadataGranule, urls) == SetURLs(CopyKeys(metadataGranule, <<>>), urls)

\* the rewrite of a CMR file that does not reach its upload
NoRewrite(msg) ==
  [pc |-> "rejected", target |-> Id(Undefined, NoPath), old |-> Id(Undefined, NoPath),
   body |-> Obj(0, "private"), Granule |-> <<>>, error |-> Error("TypeError", msg)]

\* the rewrite from the splice to its first await (the upload), or to its throw
Spliced(cmrFile, granule, urls, spliced) ==
  LET found == SelectSeq(granule.files, LAMBDA f : IsCmrUri(f.filename))
  IN IF spliced.error # NoError
       THEN [NoRewrite("") EXCEPT !.error = spliced.error, !.Granule = spliced.Granule]
     ELSE IF found = <<>> THEN [NoRewrite("undefined") EXCEPT !.Granule = spliced.Granule]
     ELSE [pc |-> "upload",
           target |-> Id(found[1].bucket.name, found[1].filepath),
           old |-> parseS3Uri(cmrFile.filename),
           body |-> [data |-> cmrFile.metadataObject.data, urls |-> urls,
                     acl |-> AclOf(found[1])],
           Granule |-> spliced.Granule,
           error |-> NoError]

\* the rewrite from the list of the URLs to its first await, or to its throw
WithURLs(cmrFile, granule, urls) ==
  Spliced(cmrFile, granule, urls, Splice(cmrFile.metadataObject.Granule, urls))

\* one rewrite from its call to its first await, or to its throw
NewCmr(cmrFile, gr) ==
  IF ~HasKey(gr, cmrFile.granuleId) THEN NoRewrite("undefined")
  ELSE IF cmrFile.metadataObject.root # "Granule"
    THEN NoRewrite("Cannot convert undefined or null to object")
  ELSE WithURLs(cmrFile, gr[IndexOf(gr, cmrFile.granuleId)],
                AccessURLs(gr[IndexOf(gr, cmrFile.granuleId)].files))

\* the granules returned as they are, the bucket objects kept
OutputWithBucketObjects(gr) == gr

\* the granules of the output: the bucket of every file is the bucket name
Output(gr) ==
  [i \in 1..Len(gr) |->
     [gr[i] EXCEPT !.files =
        [j \in 1..Len(gr[i].files) |->
           [gr[i].files[j] EXCEPT !.bucket = BucketName(@.name)]]]]

(***************************************************************************)
(* The continuation of moveGranules after a request or a rewrite settles:  *)
(* promise reactions run before any other storage call returns.            *)
(***************************************************************************)
AfterCmr(p, e, gr, cp) ==
  IF p # "cmr" THEN [pc |-> p, err |-> e, granules |-> gr]
  ELSE IF \E i \in 1..Len(cp) : cp[i].pc = "rejected"
    THEN LET i == CHOOSE x \in 1..Len(cp) :
                    /\ cp[x].pc = "rejected"
                    /\ \A y \in 1..(x - 1) : cp[y].pc # "rejected"
         IN [pc |-> "failed", err |-> cp[i].error, granules |-> gr]
  ELSE IF \A i \in 1..Len(cp) : cp[i].pc = "resolved"
    THEN [pc |-> "done", err |-> e, granules |-> Output(gr)]
  ELSE [pc |-> p, err |-> e, granules |-> gr]

\* the joins of moveFilesForAllGranules changed: "anyGranule" returns once
\* the requests of one granule have resolved, "allSettled" throws only
\* when every request has settled
AfterMovesWith(change, p, e, tg, gr, jn, cp, mv, cf) ==
  LET newly == Resolved(tg, mv) \ jn
      moved == GranulesAfter(gr, tg, mv, newly)
      all == jn \cup newly
      rejected == {k \in DOMAIN mv : mv[k].pc = "rejected"}
      settled == \A k \in DOMAIN mv : mv[k].pc \in {"resolved", "rejected"}
  IN IF p # "moving"
       THEN [pc |-> p, err |-> e, granules |-> moved, joined |-> all, cmrpc |-> cp]
     ELSE IF rejected # {} /\ (change = "allSettled" => settled)
       THEN [pc |-> "failed", err |-> mv[CHOOSE k \in rejected : TRUE].error,
             granules |-> moved, joined |-> all, cmrpc |-> cp]
     ELSE IF rejected = {} /\ (all = 1..Len(tg) \/ (change = "anyGranule" /\ all # {}))
       THEN LET started == [i \in 1..Len(cf) |-> NewCmr(cf[i], moved)]
                after == AfterCmr("cmr", e, moved, started)
            IN [pc |-> after.pc, err |-> after.err, granules |-> after.granules,
                joined |-> all, cmrpc |-> started]
     ELSE [pc |-> p, err |-> e, granules |-> moved, joined |-> all, cmrpc |-> cp]

AfterMovesOfAnyGranule(p, e, tg, gr, jn, cp, mv, cf) ==
  AfterMovesWith("anyGranule", p, e, tg, gr, jn, cp, mv, cf)

AfterMovesAllSettled(p, e, tg, gr, jn, cp, mv, cf) ==
  AfterMovesWith("allSettled", p, e, tg, gr, jn, cp, mv, cf)

AfterMoves(p, e, tg, gr, jn, cp, mv, cf) ==
  LET newly == Resolved(tg, mv) \ jn
      moved == GranulesAfter(gr, tg, mv, newly)
      all == jn \cup newly
      rejected == {k \in DOMAIN mv : mv[k].pc = "rejected"}
  IN IF p # "moving"
       THEN [pc |-> p, err |-> e, granules |-> moved, joined |-> all, cmrpc |-> cp]
     ELSE IF rejected # {}
       THEN [pc |-> "failed", err |-> mv[CHOOSE k \in rejected : TRUE].error,
             granules |-> moved, joined |-> all, cmrpc |-> cp]
     ELSE IF all = 1..Len(tg)
       THEN LET started == [i \in 1..Len(cf) |-> NewCmr(cf[i], moved)]
                after == AfterCmr("cmr", e, moved, started)
            IN [pc |-> after.pc, err |-> after.err, granules |-> after.granules,
                joined |-> all, cmrpc |-> started]
     ELSE [pc |-> p, err |-> e, granules |-> moved, joined |-> all, cmrpc |-> cp]

(***************************************************************************)
(* moveGranules up to the first storage call of the mover.                 *)
(***************************************************************************)
\* the OnlineAccessURL entries of a CMR file before its rewrite
OldURLs == <<[via |-> "s3", bucket |-> "old-bucket", filepath |-> K("old", N("A.hdf", <<>>))]>>

\* the keys OnlineAccessURLs, OnlineResources and Orderable of the Granule
\* element of the document of content n, in their order in the document
AccessKeys(n) ==
  LET URLs == Prop("OnlineAccessURLs", "", OldURLs)
      Resources == Prop("OnlineResources", "resources", <<>>)
      Orderable == Prop("Orderable", "true", <<>>)
  IN CASE n = 1 -> <<>>
       [] n = 2 -> <<Orderable>>
       [] n = 3 -> <<Resources>>
       [] n = 4 -> <<Orderable, URLs, Resources>>
       [] n = 5 -> <<Resources, URLs>>
       [] n = 6 -> <<Orderable, Resources>>
       [] n = 7 -> <<Orderable, URLs>>
       [] OTHER -> <<URLs>>

\* parseXmlString: the object of the one root element of the document;
\* content 8 is a document whose root is ShortName, every other content a
\* document whose root is Granule
parseXmlString(obj) ==
  IF obj.data = 8
    THEN [data |-> obj.data, root |-> "ShortName", ShortName |-> "MOD09",
          CollectionShortName |-> Undefined, Granule |-> <<>>]
    ELSE [data |-> obj.data, root |-> "Granule", ShortName |-> Undefined,
          CollectionShortName |-> "MOD09",
          Granule |-> <<Prop("GranuleUR", "G1", <<>>), Prop("Collection", "MOD09", <<>>)>>
                        \o AccessKeys(obj.data)]

\* getCmrFiles(input, regex): the CMR files among the input URIs, each
\* with its granuleId and the metadata read from storage
getCmrFiles(input, regex, st) ==
  LET uris == SelectSeq(input, IsCmrUri)
  IN IF \E i \in 1..Len(uris) : ~s3ObjectExists(st, parseS3Uri(uris[i]))
       THEN [error |-> Error("NoSuchKey", "the CMR file does not exist"), files |-> <<>>]
       ELSE [error |-> NoError,
             files |-> [i \in 1..Len(uris) |->
                          [granuleId |-> getGranuleId(uris[i], regex),
                           filename |-> uris[i],
                           metadataObject |-> parseXmlString(st[parseS3Uri(uris[i])])]]]

\* moveGranules from the return of getCmrFiles to its next await
Planned(ev, cf, st) ==
  LET config == ev.config
      failed(e) == [pc |-> "failed", err |-> e, targeted |-> <<>>, granules |-> <<>>,
                    moves |-> <<>>, joined |-> {}, cmrpc |-> <<>>]
      allGranules ==
        addInputFilesToGranules(ev.input, config.input_granules, config.granuleIdExtraction)
      targetedGranules ==
        updateGranuleMetadata(allGranules.granules, config.collection, cf, config.buckets)
      tg == targetedGranules.granules
      mv == [k \in MoveKeys(tg) |-> NewMove(FilesToMove(tg[k[1]])[k[2]], config.bucket, st)]
      after == AfterMoves("moving", NoError, tg, tg, {}, <<>>, mv, cf)
  IN IF allGranules.error # NoError THEN failed(allGranules.error)
     ELSE IF targetedGranules.error # NoError THEN failed(targetedGranules.error)
     ELSE IF ~config.moveStagedFiles
       THEN [failed(Error("TypeError", "movedGranules is undefined")) EXCEPT
               !.targeted = tg, !.granules = tg]
     ELSE [pc |-> after.pc, err |-> after.err, targeted |-> tg,
           granules |-> after.granules, moves |-> mv, joined |-> after.joined,
           cmrpc |-> after.cmrpc]

(***************************************************************************)
(* The inputs.                                                             *)
(***************************************************************************)
StagingBucket == "internal-bucket"

Policies == {"error", "skip", "replace", "version"}

hdf == N("G1.hdf", <<>>)

hdfV1 == N("G1.hdf", <<1>>)

jpg == N("G1.jpg", <<>>)

hdf2 == N("G2.hdf", <<>>)

cmrXml == N("G1.cmr.xml", <<>>)

cmrXml2 == N("G2.cmr.xml", <<>>)

\* the granuleIdExtraction regex, by the base name it is applied to
Extraction ==
  [b \in {"G1.hdf", "G1.jpg", "G1.cmr.xml", "G2.hdf", "G2.cmr.xml",
            "A.hdf", "A.hdf.cmr.xml"} |->
     IF b \in {"G2.hdf", "G2.cmr.xml"} THEN "G2" ELSE "G1"]

Staged(name) == <<StagingBucket, "file-staging", name>>

AllBuckets ==
  [k \in {"protected", "public", "internal"} |->
     [name |-> k \o "-bucket", type |-> k]]

BucketMaps == {AllBuckets, [k \in {"protected", "internal"} |-> AllBuckets[k]]}

Regex(bases, anchored) == [bases |-> bases, anchored |-> anchored]

Rule(regex, bucket, url_path) == [regex |-> regex, bucket |-> bucket, url_path |-> url_path]

RuleHdf == Rule(Regex({"G1.hdf", "G2.hdf"}, TRUE), "protected", "{granule.granuleId}")

RuleG1 == Rule(Regex({"G1.hdf", "G1.jpg"}, FALSE), "public", Undefined)

RuleJpg == Rule(Regex({"G1.jpg"}, TRUE), "public", "")

RuleCmr == Rule(Regex({"G1.cmr.xml"}, TRUE), "protected", "{granule.granuleId}")

Rules == {RuleHdf, RuleG1, RuleJpg, RuleCmr}

Collection(files, url_path) ==
  [files |-> files, url_path |-> url_path, duplicateHandling |-> Undefined]

RuleLists(n) == UNION {[1..m -> Rules] : m \in 0..n}

\* the collections of the classification runs: every rule list up to MaxRules
ClassifyCollections ==
  {Collection(files, url_path) : files \in RuleLists(MaxRules), url_path \in {Undefined, "data"}}

\* the collections of the move runs
MoveCollections ==
  {Collection(<<RuleHdf, RuleJpg, RuleCmr>>, "data"),
   Collection(<<RuleG1, RuleCmr>>, "data"),
   Collection(<<RuleHdf, RuleG1, RuleCmr>>, Undefined)}

\* the properties read of an event without a top-level collection
NoCollection == [duplicateHandling |-> Undefined]

Roster(input_granules, input) == [input_granules |-> input_granules, input |-> input]

Rosters ==
  {Roster(<<Granule("G1", <<>>)>>, <<Staged(hdf)>>),
   Roster(<<Granule("G1", <<>>)>>, <<Staged(hdf), Staged(cmrXml)>>),
   Roster(<<Granule("G1", <<>>), Granule("G2", <<>>)>>, <<Staged(hdf), Staged(hdf2)>>),
   Roster(<<Granule("G1", <<>>)>>, <<Staged(hdf), Staged(hdfV1)>>),
   Roster(<<Granule("G1", <<File(jpg, StagingBucket,
                                  <<StagingBucket, "alt-staging", jpg>>,
                                  "browse", "alt-staging")>>)>>,
          <<Staged(hdf)>>)}

Event(roster, collection, bkts, duplicateHandling) ==
  [config |-> [bucket |-> StagingBucket,
               buckets |-> bkts,
               granuleIdExtraction |-> Extraction,
               input_granules |-> roster.input_granules,
               collection |-> collection,
               moveStagedFiles |-> TRUE,
               duplicateHandling |-> duplicateHandling],
   input |-> roster.input,
   collection |-> NoCollection,
   cumulus_config |-> [cumulus_context |-> [forceDuplicateOverwrite |-> FALSE]]]

\* the content of a staged file
StagedData(name) == IF name.vers = <<>> THEN 1 ELSE 3

\* the files of the event, staged (the CMR file at its input URI)
StagedFiles(ev) ==
  LET all == addInputFilesToGranules(ev.input, ev.config.input_granules,
                                     ev.config.granuleIdExtraction).granules
      files == Flatten([i \in 1..Len(all) |-> all[i].files])
  IN {files[i] : i \in 1..Len(files)}

StagedObject(ev, file) ==
  IF IsCmrName(file.name) THEN parseS3Uri(file.filename)
  ELSE SourceOf(file, ev.config.bucket)

\* the destinations of the data files of the event, when they all classify
Targets(ev) ==
  LET all == addInputFilesToGranules(ev.input, ev.config.input_granules,
                                     ev.config.granuleIdExtraction)
      tg == updateGranuleMetadata(all.granules, ev.config.collection, <<>>,
                                  ev.config.buckets)
      files == Flatten([i \in 1..Len(tg.granules) |-> FilesToMove(tg.granules[i])])
  IN IF all.error # NoError \/ tg.error # NoError THEN {}
     ELSE {files[i] : i \in 1..Len(files)}

\* storage before the invocation: every file staged; at the destination of
\* file f an object of content there[f] (0: none) and, when versions[f],
\* a version of it renamed by an earlier invocation
Storage(ev, there, versions) ==
  LET staged == {StagedObject(ev, f) : f \in StagedFiles(ev)}
      present == {TargetOf(f) : f \in {x \in DOMAIN there : there[x] # 0}}
      renamed == {Id(TargetOf(f).Bucket, VersionedKey(TargetOf(f).Key, 1)) : f \in versions}
      fileAt(id) == CHOOSE f \in DOMAIN there : TargetOf(f) = id
      stagedAt(id) == CHOOSE f \in StagedFiles(ev) : StagedObject(ev, f) = id
  IN [id \in staged \cup present \cup renamed |->
        IF id \in staged
          THEN Obj(IF IsCmrName(stagedAt(id).name) THEN 0 ELSE StagedData(stagedAt(id).name),
                   "private")
        ELSE IF id \in present
          THEN Obj(there[fileAt(id)], AclOf(fileAt(id)))
        ELSE Obj(2, "private")]

Start(ev, st) ==
  /\ event = ev
  /\ s3 = st
  /\ pc = "start"
  /\ err = NoError
  /\ cmrFiles = <<>>
  /\ targeted = <<>>
  /\ granules = <<>>
  /\ moves = <<>>
  /\ joined = {}
  /\ cmrpc = <<>>
  /\ oplog = {}
  /\ runs = <<>>
  /\ s3start = st

Init ==
  \E roster \in Rosters, collection \in MoveCollections, bkts \in BucketMaps,
     duplicateHandling \in Policies :
    LET ev == Event(roster, collection, bkts, duplicateHandling) IN
      \E there \in [Targets(ev) -> 0..3], versions \in SUBSET Targets(ev) :
        Start(ev, Storage(ev, there, versions))

\* the classification runs: every rule list, no object at any destination
InitClassify ==
  \E roster \in Rosters, collection \in ClassifyCollections, bkts \in BucketMaps :
    LET ev == Event(roster, collection, bkts, "error") IN
      Start(ev, Storage(ev, [f \in Targets(ev) |-> 0], {}))

\* a file of an input granule that is the staged object of that name
Attached(name) == File(name, StagingBucket, Staged(name), Undefined, Undefined)

\* the rosters of the input runs: input URIs new to the granules, already
\* attached to one, of a granule that is not in input_granules, given
\* twice, and empty entries
InputRosters ==
  {Roster(<<Granule("G1", <<>>)>>, <<Staged(hdf), Staged(cmrXml)>>),
   Roster(<<Granule("G1", <<Attached(hdf)>>)>>, <<Staged(hdf), Staged(jpg)>>),
   Roster(<<Granule("G1", <<>>), Granule("G2", <<>>)>>, <<Staged(hdf2), Staged(hdf)>>),
   Roster(<<Granule("G1", <<>>)>>, <<Staged(hdf), Staged(hdf2), Staged(jpg)>>),
   Roster(<<Granule("G2", <<Attached(jpg)>>), Granule("G1", <<>>)>>,
          <<NoUri, Staged(jpg), Staged(hdf)>>),
   Roster(<<Granule("G1", <<>>)>>, <<Staged(hdf), Staged(hdf)>>),
   Roster(<<Granule("G2", <<Attached(hdf2)>>)>>, <<Staged(hdf2), Staged(jpg)>>)}

InitInputs ==
  \E roster \in InputRosters, collection \in ClassifyCollections, bkts \in BucketMaps :
    LET ev == Event(roster, collection, bkts, "error") IN
      Start(ev, Storage(ev, [f \in Targets(ev) |-> 0], {}))

\* the buckets of the rewrite runs, one of each type
CmrBuckets ==
  [k \in {"protected", "public", "internal", "private"} |->
     [name |-> k \o "-bucket", type |-> k]]

\* the CMR file classified to the place where it is staged
RuleCmrInPlace == Rule(Regex({"G1.cmr.xml"}, TRUE), "internal", "file-staging")

\* the rewrite runs: a granule of two data files and its CMR file, each
\* sent to a bucket of one of two or three types
InitCmr ==
  \E forHdf \in {"protected", "private"}, forJpg \in {"public", "internal"},
     forCmr \in {RuleCmr, RuleCmrInPlace, [RuleCmr EXCEPT !.bucket = "public"]},
     duplicateHandling \in Policies :
    LET roster == Roster(<<Granule("G1", <<>>)>>, <<Staged(hdf), Staged(jpg), Staged(cmrXml)>>)
        collection == Collection(<<[RuleHdf EXCEPT !.bucket = forHdf],
                                   [RuleJpg EXCEPT !.bucket = forJpg], forCmr>>, "data")
        ev == Event(roster, collection, CmrBuckets, duplicateHandling)
    IN \E there \in [Targets(ev) -> 0..2], versions \in SUBSET Targets(ev) :
         Start(ev, Storage(ev, there, versions))

\* the repeated runs: one, two or no staged data file is missing, so that
\* a first invocation may fail when some of its files are moved
InitRerun ==
  \E roster \in {Roster(<<Granule("G1", <<>>)>>, <<Staged(hdf), Staged(cmrXml)>>),
                  Roster(<<Granule("G1", <<>>), Granule("G2", <<>>)>>,
                         <<Staged(hdf), Staged(hdf2)>>),
                  Roster(<<Granule("G1", <<>>)>>, <<Staged(hdf), Staged(jpg)>>)},
     duplicateHandling \in Policies :
    LET collection == Collection(<<RuleHdf, RuleJpg, RuleCmr>>, "data")
        ev == Event(roster, collection, AllBuckets, duplicateHandling)
    IN \E there \in [Targets(ev) -> 0..2], versions \in {{}, Targets(ev)},
          missing \in SUBSET Targets(ev) :
         LET st == Storage(ev, there, versions)
             gone == {SourceOf(f, ev.config.bucket) : f \in missing}
         IN Start(ev, [id \in (DOMAIN st) \ gone |-> st[id]])

\* the configuration runs: one granule with its CMR file, and every way to
\* configure the policy and the moveStagedFiles flag
InitConfig ==
  \E inConfig \in Policies \cup {Undefined}, inCollection \in Policies \cup {Undefined},
     atTop \in Policies \cup {Undefined}, force \in BOOLEAN, moveStagedFiles \in BOOLEAN :
    LET roster == Roster(<<Granule("G1", <<>>)>>, <<Staged(hdf), Staged(cmrXml)>>)
        collection == Collection(<<RuleHdf, RuleJpg, RuleCmr>>, "data")
        ev == [Event(roster, collection, AllBuckets, inConfig) EXCEPT
                 !.config.collection.duplicateHandling = inCollection,
                 !.config.moveStagedFiles = moveStagedFiles,
                 !.collection.duplicateHandling = atTop,
                 !.cumulus_config.cumulus_context.forceDuplicateOverwrite = force]
    IN \E there \in [Targets(ev) -> 0..2], versions \in SUBSET Targets(ev) :
         Start(ev, Storage(ev, there, versions))

(***************************************************************************)
(* The steps of moveGranules.                                              *)
(***************************************************************************)
GetCmrFiles ==
  /\ pc = "start"
  /\ LET got == getCmrFiles(event.input, event.config.granuleIdExtraction, s3) IN
       /\ cmrFiles' = got.files
       /\ pc' = IF got.error = NoError THEN "plan" ELSE "failed"
       /\ err' = got.error
  /\ UNCHANGED <<event, runs, s3start, s3, targeted, granules, moves, joined, cmrpc, oplog>>

Plan ==
  /\ pc = "plan"
  /\ LET p == Planned(event, cmrFiles, s3) IN
       /\ pc' = p.pc
       /\ err' = p.err
       /\ targeted' = p.targeted
       /\ granules' = p.granules
       /\ moves' = p.moves
       /\ joined' = p.joined
       /\ cmrpc' = p.cmrpc
  /\ UNCHANGED <<event, runs, s3start, s3, cmrFiles, oplog>>

\* the reactions to the settling of a request, then the new state
Settle(mv) ==
  LET after == AfterMoves(pc, err, targeted, granules, joined, cmrpc, mv, cmrFiles) IN
    /\ moves' = mv
    /\ pc' = after.pc
    /\ err' = after.err
    /\ granules' = after.granules
    /\ joined' = after.joined
    /\ cmrpc' = after.cmrpc

Rejected(m, e) == [m EXCEPT !.pc = "rejected", !.error = e]

ResolvedWith(m, result) == [m EXCEPT !.pc = "resolved", !.result = result]

NoSuchKey == Error("NoSuchKey", "The specified key does not exist.")

\* moveFileRequest with one test of the policy changed:
\* "noError" drops the throw of DuplicateFile, "noSkip" drops the return
\* of 'skip', "replaceVersions" sends 'replace' down the checksum branch,
\* "skipAlways" returns under 'skip' whether or not the object exists,
\* "noFlag" leaves duplicate_found unset
AfterExistsWith(change, m, s3ObjAlreadyExists, duplicateHandling, st) ==
  LET probed == [m EXCEPT !.exists = s3ObjAlreadyExists,
                          !.fileMoved.duplicate_found =
                             @ \/ (change # "noFlag" /\ s3ObjAlreadyExists),
                          !.before = st]
  IN IF change # "noError" /\ s3ObjAlreadyExists /\ duplicateHandling = "error"
       THEN Rejected(probed, Error("DuplicateFile", "already exists in bucket"))
     ELSE IF /\ change # "noSkip"
             /\ s3ObjAlreadyExists \/ change = "skipAlways"
             /\ duplicateHandling = "skip"
       THEN ResolvedWith(probed, <<probed.fileMoved>>)
     ELSE IF /\ s3ObjAlreadyExists
             /\ \/ duplicateHandling = "version"
                \/ change = "replaceVersions" /\ duplicateHandling = "replace"
       THEN [probed EXCEPT !.pc = "checksumTarget"]
     ELSE [probed EXCEPT !.pc = "move"]

AfterExistsNoError(m, s3ObjAlreadyExists, duplicateHandling, st) ==
  AfterExistsWith("noError", m, s3ObjAlreadyExists, duplicateHandling, st)

AfterExistsNoSkip(m, s3ObjAlreadyExists, duplicateHandling, st) ==
  AfterExistsWith("noSkip", m, s3ObjAlreadyExists, duplicateHandling, st)

AfterExistsReplaceVersions(m, s3ObjAlreadyExists, duplicateHandling, st) ==
  AfterExistsWith("replaceVersions", m, s3ObjAlreadyExists, duplicateHandling, st)

AfterExistsSkipAlways(m, s3ObjAlreadyExists, duplicateHandling, st) ==
  AfterExistsWith("skipAlways", m, s3ObjAlreadyExists, duplicateHandling, st)

AfterExistsNoFlag(m, s3ObjAlreadyExists, duplicateHandling, st) ==
  AfterExistsWith("noFlag", m, s3ObjAlreadyExists, duplicateHandling, st)

\* moveFileRequest from the result of s3ObjectExists to its next await
AfterExists(m, s3ObjAlreadyExists, duplicateHandling, st) ==
  LET probed == [m EXCEPT !.exists = s3ObjAlreadyExists,
                          !.fileMoved.duplicate_found = @ \/ s3ObjAlreadyExists,
                          !.before = st]
  IN IF s3ObjAlreadyExists /\ duplicateHandling = "error"
       THEN Rejected(probed, Error("DuplicateFile", "already exists in bucket"))
     ELSE IF s3ObjAlreadyExists /\ duplicateHandling = "skip"
       THEN ResolvedWith(probed, <<probed.fileMoved>>)
     ELSE IF s3ObjAlreadyExists /\ duplicateHandling = "version"
       THEN [probed EXCEPT !.pc = "checksumTarget"]
     ELSE [probed EXCEPT !.pc = "move"]

Exists(k) ==
  /\ moves[k].pc = "exists"
  /\ LET m == moves[k] IN
       Settle([moves EXCEPT ![k] =
         AfterExists(m, s3ObjectExists(s3, m.target), duplicateHandlingType(event), s3)])
  /\ UNCHANGED <<event, runs, s3start, s3, cmrFiles, targeted, oplog>>

ChecksumTarget(k) ==
  /\ moves[k].pc = "checksumTarget"
  /\ LET m == moves[k] IN
       Settle([moves EXCEPT ![k] =
         IF s3ObjectExists(s3, m.target)
           THEN [m EXCEPT !.existingFileSum = checksumS3Objects(s3, m.target),
                          !.pc = "checksumSource"]
           ELSE Rejected(m, NoSuchKey)])
  /\ UNCHANGED <<event, runs, s3start, s3, cmrFiles, targeted, oplog>>

\* the comparison of the checksums inverted
AfterChecksumsInverted(m, stagedFileSum) ==
  [m EXCEPT !.stagedFileSum = stagedFileSum,
            !.pc = IF m.existingFileSum # stagedFileSum THEN "delete" ELSE "rename"]

\* the existing file renamed whatever the checksums
AfterChecksumsAlwaysRename(m, stagedFileSum) ==
  [m EXCEPT !.stagedFileSum = stagedFileSum, !.pc = "rename"]

\* the staged checksum, then the comparison of the two
AfterChecksums(m, stagedFileSum) ==
  [m EXCEPT !.stagedFileSum = stagedFileSum,
            !.pc = IF m.existingFileSum = stagedFileSum THEN "delete" ELSE "rename"]

ChecksumSource(k) ==
  /\ moves[k].pc = "checksumSource"
  /\ LET m == moves[k] IN
       Settle([moves EXCEPT ![k] =
         IF s3ObjectExists(s3, m.source)
           THEN AfterChecksums(m, checksumS3Objects(s3, m.source))
           ELSE Rejected(m, NoSuchKey)])
  /\ UNCHANGED <<event, runs, s3start, s3, cmrFiles, targeted, oplog>>

\* the renamed files listed under every policy
AfterPlacedAlwaysList(m, duplicateHandling) == [m EXCEPT !.pc = "list"]

\* after the staged file is deleted or moved: the listing, under 'version'
AfterPlaced(m, duplicateHandling) ==
  IF duplicateHandling = "version" THEN [m EXCEPT !.pc = "list"]
  ELSE ResolvedWith(m, MoveResult(m, <<>>))

DeleteSource(k) ==
  /\ moves[k].pc = "delete"
  /\ s3' = deleteS3Object(s3, moves[k].source)
  /\ oplog' = oplog \cup {[op |-> "delete", id |-> moves[k].source]}
  /\ Settle([moves EXCEPT ![k] = AfterPlaced(moves[k], duplicateHandlingType(event))])
  /\ UNCHANGED <<event, runs, s3start, cmrFiles, targeted>>

Rename(k) ==
  /\ moves[k].pc = "rename"
  /\ IF s3ObjectExists(s3, moves[k].target)
       THEN \E ts \in 1..MaxTs :
              /\ ~s3ObjectExists(s3, Id(moves[k].target.Bucket,
                                        VersionedKey(moves[k].target.Key, ts)))
              /\ s3' = renameS3FileWithTimestamp(s3, moves[k].target, ts)
              /\ oplog' = oplog \cup {[op |-> "rename", id |-> moves[k].target]}
              /\ Settle([moves EXCEPT ![k].pc = "move"])
       ELSE /\ Settle([moves EXCEPT ![k] = Rejected(moves[k], NoSuchKey)])
            /\ UNCHANGED <<s3, oplog>>
  /\ UNCHANGED <<event, runs, s3start, cmrFiles, targeted>>

Move(k) ==
  /\ moves[k].pc = "move"
  /\ IF s3ObjectExists(s3, moves[k].source)
       THEN /\ s3' = moveGranuleFile(s3, moves[k].source, moves[k].target,
                                     AclOf(moves[k].file))
            /\ oplog' = oplog \cup {[op |-> "move", id |-> moves[k].target]}
            /\ Settle([moves EXCEPT ![k] = AfterPlaced(moves[k], duplicateHandlingType(event))])
       ELSE /\ Settle([moves EXCEPT ![k] = Rejected(moves[k], NoSuchKey)])
            /\ UNCHANGED <<s3, oplog>>
  /\ UNCHANGED <<event, runs, s3start, cmrFiles, targeted>>

List(k) ==
  /\ moves[k].pc = "list"
  /\ LET m == moves[k] IN
       Settle([moves EXCEPT ![k] =
         ResolvedWith(m, MoveResult(m, getRenamedS3File(s3, m.target)))])
  /\ UNCHANGED <<event, runs, s3start, s3, cmrFiles, targeted, oplog>>

\* the reactions to the settling of a rewrite, then the new state
SettleCmr(cp) ==
  LET after == AfterCmr(pc, err, granules, cp) IN
    /\ cmrpc' = cp
    /\ pc' = after.pc
    /\ err' = after.err
    /\ granules' = after.granules

\* the rewrite uploads only while moveGranules has not failed
CmrUploadUnlessFailed(i) ==
  /\ pc # "failed"
  /\ cmrpc[i].pc = "upload"
  /\ s3' = PutObject(s3, cmrpc[i].target, cmrpc[i].body)
  /\ oplog' = oplog \cup {[op |-> "upload", id |-> cmrpc[i].target]}
  /\ SettleCmr([cmrpc EXCEPT ![i].pc = "delete"])
  /\ UNCHANGED <<event, runs, s3start, cmrFiles, targeted, moves, joined>>

CmrUpload(i) ==
  /\ cmrpc[i].pc = "upload"
  /\ s3' = PutObject(s3, cmrpc[i].target, cmrpc[i].body)
  /\ oplog' = oplog \cup {[op |-> "upload", id |-> cmrpc[i].target]}
  /\ SettleCmr([cmrpc EXCEPT ![i].pc = "delete"])
  /\ UNCHANGED <<event, runs, s3start, cmrFiles, targeted, moves, joined>>

CmrDelete(i) ==
  /\ cmrpc[i].pc = "delete"
  /\ s3' = deleteS3Object(s3, cmrpc[i].old)
  /\ oplog' = oplog \cup {[op |-> "delete", id |-> cmrpc[i].old]}
  /\ SettleCmr([cmrpc EXCEPT ![i].pc = "resolved"])
  /\ UNCHANGED <<event, runs, s3start, cmrFiles, targeted, moves, joined>>

\* promiseS3Upload rejects: the rewrite ends before its delete
CmrUploadFails(i) ==
  /\ cmrpc[i].pc = "upload"
  /\ SettleCmr([cmrpc EXCEPT ![i].pc = "rejected",
                             ![i].error = Error("S3Error", "upload failed")])
  /\ UNCHANGED <<event, runs, s3start, s3, cmrFiles, targeted, moves, joined, oplog>>

Next ==
  \/ GetCmrFiles
  \/ Plan
  \/ \E k \in DOMAIN moves : Exists(k)
  \/ \E k \in DOMAIN moves : ChecksumTarget(k)
  \/ \E k \in DOMAIN moves : ChecksumSource(k)
  \/ \E k \in DOMAIN moves : DeleteSource(k)
  \/ \E k \in DOMAIN moves : Rename(k)
  \/ \E k \in DOMAIN moves : Move(k)
  \/ \E k \in DOMAIN moves : List(k)
  \/ \E i \in DOMAIN cmrpc : CmrUpload(i)
  \/ \E i \in DOMAIN cmrpc : CmrDelete(i)

Spec == Init /\ [][Next]_vars

\* the invocation and all that it started have come to their end
Quiescent ==
  /\ pc \in {"done", "failed"}
  /\ \A k \in DOMAIN moves : moves[k].pc \in {"resolved", "rejected"}
  /\ \A i \in DOMAIN cmrpc : cmrpc[i].pc \in {"resolved", "rejected"}

\* the files of the event are staged again, as they were before the first
\* invocation
Restage ==
  /\ Quiescent
  /\ Len(runs) + 1 < MaxRuns
  /\ LET staged == {StagedObject(event, f) : f \in StagedFiles(event)} \cap DOMAIN s3start
     IN s3' = [id \in (DOMAIN s3) \cup staged |->
                 IF id \in staged THEN s3start[id] ELSE s3[id]]
  /\ s3' # s3
  /\ UNCHANGED <<event, runs, s3start, pc, err, cmrFiles, targeted, granules, moves,
                 joined, cmrpc, oplog>>

\* moveGranules is invoked again with the same event
Reinvoke ==
  /\ Quiescent
  /\ Len(runs) + 1 < MaxRuns
  /\ runs' = Append(runs, [pc |-> pc, err |-> err, granules |-> granules,
                           moves |-> moves, s3 |-> s3])
  /\ pc' = "start"
  /\ err' = NoError
  /\ cmrFiles' = <<>>
  /\ targeted' = <<>>
  /\ granules' = <<>>
  /\ moves' = <<>>
  /\ joined' = {}
  /\ cmrpc' = <<>>
  /\ UNCHANGED <<event, s3, s3start, oplog>>

NextRerun ==
  \/ Next
  \/ Restage
  \/ Reinvoke

SpecRerun == InitRerun /\ [][NextRerun]_vars

NextCmr ==
  \/ Next
  \/ \E i \in DOMAIN cmrpc : CmrUploadFails(i)

SpecCmr == InitCmr /\ [][NextCmr]_vars

\* deleteS3Object of the old copy rejects: the old copy stays
CmrDeleteFails(i) ==
  /\ cmrpc[i].pc = "delete"
  /\ SettleCmr([cmrpc EXCEPT ![i].pc = "rejected",
                             ![i].error = Error("S3Error", "delete failed")])
  /\ UNCHANGED <<event, runs, s3start, s3, cmrFiles, targeted, moves, joined, oplog>>

NextCmrs ==
  \/ NextCmr
  \/ \E i \in DOMAIN cmrpc : CmrDeleteFails(i)

NextClassify ==
  \/ GetCmrFiles
  \/ Plan

SpecClassify == InitClassify /\ [][NextClassify]_vars

SpecConfig == InitConfig /\ [][Next]_vars

SpecInputs == InitInputs /\ [][NextClassify]_vars

(***************************************************************************)
(* Properties of the classification.                                       *)
(***************************************************************************)
\* moveGranules is past updateGranuleMetadata
PlanDone == pc \notin {"start", "plan"}

\* the granules updateGranuleMetadata is given
Roster0 ==
  addInputFilesToGranules(event.input, event.config.input_granules,
                          event.config.granuleIdExtraction)

FilesOf(gs) == UNION {{<<i, j>> : j \in 1..Len(gs[i].files)} : i \in 1..Len(gs)}

\* the rules whose regex matches the name of the file without its suffixes
MatchingRules(file) ==
  {n \in 1..Len(event.config.collection.files) :
     /\ file.name.base \in event.config.collection.files[n].regex.bases}

TheRule(file) ==
  event.config.collection.files[CHOOSE n \in MatchingRules(file) : TRUE]

OneRule(file) == Cardinality(MatchingRules(file)) = 1

KnownBucket(file) == TheRule(file).bucket \in DOMAIN event.config.buckets

\* some file of some granule fails classification
ClassifyFails ==
  /\ Roster0.error = NoError
  /\ \E p \in FilesOf(Roster0.granules) :
       LET file == Roster0.granules[p[1]].files[p[2]]
       IN ~OneRule(file) \/ ~KnownBucket(file)

\* C1: updateGranuleMetadata gives every file the bucket and the path of the
\* one rule that matches its version-stripped name, or throws
\* InvalidArgument; it throws when a file matches several rules or none
C1_OneRuleOrInvalidArgument ==
  (PlanDone /\ Roster0.error = NoError) =>
    LET gs == Roster0.granules IN
      /\ (\E p \in FilesOf(gs) : ~OneRule(gs[p[1]].files[p[2]])) =>
           (pc = "failed" /\ err.name = "InvalidArgument" /\ targeted = <<>>)
      /\ targeted = <<>> => (pc = "failed" /\ err.name = "InvalidArgument")
      /\ targeted # <<>> =>
           /\ Len(targeted) = Len(gs)
           /\ \A i \in 1..Len(gs) : Len(targeted[i].files) = Len(gs[i].files)
           /\ \A p \in FilesOf(gs) :
                LET file == gs[p[1]].files[p[2]]
                    out == targeted[p[1]].files[p[2]]
                    rule == TheRule(file)
                IN /\ OneRule(file)
                   /\ KnownBucket(file)
                   /\ out.bucket = event.config.buckets[rule.bucket]
                   /\ out.filepath.name = file.name
                   /\ (~Truthy(file.url_path) /\ Truthy(rule.url_path)) =>
                        out.filepath.dir =
                          IF rule.url_path = "{granule.granuleId}"
                            THEN gs[p[1]].granuleId ELSE rule.url_path

\* a file with a version suffix is classified by the one of two rules that
\* matches its stripped name
C1_Witness ==
  /\ PlanDone
  /\ targeted # <<>>
  /\ Len(event.config.collection.files) = 2
  /\ event.config.collection.files[1] # event.config.collection.files[2]
  /\ \E p \in FilesOf(targeted) :
       /\ targeted[p[1]].files[p[2]].name.vers # <<>>
       /\ targeted[p[1]].files[p[2]].bucket.type = "protected"

\* C2: when one rule matches a file and its bucket key is not a key of the
\* bucket map, updateGranuleMetadata throws InvalidArgument and returns no
\* destination for any granule
C2_UnknownBucketKey ==
  (PlanDone /\ Roster0.error = NoError) =>
    LET gs == Roster0.granules IN
      (\E p \in FilesOf(gs) :
          OneRule(gs[p[1]].files[p[2]]) /\ ~KnownBucket(gs[p[1]].files[p[2]]))
        => (pc = "failed" /\ err.name = "InvalidArgument" /\ targeted = <<>>
            /\ granules = <<>> /\ moves = <<>>)

\* every file matches one rule, and the bucket key of one of them is unknown
C2_Witness ==
  /\ PlanDone
  /\ Roster0.error = NoError
  /\ Cardinality(FilesOf(Roster0.granules)) = 2
  /\ \A p \in FilesOf(Roster0.granules) : OneRule(Roster0.granules[p[1]].files[p[2]])
  /\ \E p \in FilesOf(Roster0.granules) : ~KnownBucket(Roster0.granules[p[1]].files[p[2]])
  /\ \E p \in FilesOf(Roster0.granules) : KnownBucket(Roster0.granules[p[1]].files[p[2]])
  /\ pc = "failed"
  /\ err.msg = "Collection config specifies a bucket key"

\* C3: all destinations are resolved before any storage mutation: when a
\* file of a granule fails classification, the invocation fails, no request
\* is started and no step changes storage
C3_NoMutationWhenClassifyFails ==
  [][ClassifyFails =>
       /\ s3' = s3
       /\ oplog' = {}
       /\ moves' = <<>>
       /\ cmrpc' = <<>>
       /\ pc' \in {"plan", "failed"}
       /\ pc' = "failed" => err'.name = "InvalidArgument"]_vars

\* the first granule classifies, the second does not, and nothing was moved
C3_Witness ==
  /\ ClassifyFails
  /\ pc = "failed"
  /\ Len(Roster0.granules) = 2
  /\ LET file == Roster0.granules[1].files[1]
     IN OneRule(file) /\ KnownBucket(file)
  /\ \A id \in DOMAIN s3 : id.Bucket = StagingBucket

(***************************************************************************)
(* Properties of moveFileRequest.  They are stated of a request that is    *)
(* isolated: its staged source and its destination are different objects,  *)
(* and no other request or CMR rewrite of the invocation works on a key    *)
(* with the same bucket, directory and base name as one of them.           *)
(***************************************************************************)
Policy == duplicateHandlingType(event)

Related(a, b) ==
  /\ a.Bucket = b.Bucket
  /\ a.Key.dir = b.Key.dir
  /\ a.Key.name.base = b.Key.name.base

Footprint(m) == {m.source, m.target}

CmrFootprint ==
  {parseS3Uri(cmrFiles[i].filename) : i \in 1..Len(cmrFiles)}
    \cup UNION {{TargetOf(CmrFileOf(targeted[i])[j]) : j \in 1..Len(CmrFileOf(targeted[i]))} :
                  i \in 1..Len(targeted)}

Isolated(k) ==
  /\ ~Related(moves[k].source, moves[k].target)
  /\ \A a \in Footprint(moves[k]) :
       /\ \A k2 \in (DOMAIN moves) \ {k} : \A b \in Footprint(moves[k2]) : ~Related(a, b)
       /\ \A b \in CmrFootprint : ~Related(a, b)

\* the object id is the same in both storages: absent, or the same object
Same(id, a, b) ==
  /\ (id \in DOMAIN a) <=> (id \in DOMAIN b)
  /\ (id \in DOMAIN a) => a[id] = b[id]

\* the renamed versions of the object id
Versions(st, id) ==
  {x \in DOMAIN st : x.Bucket = id.Bucket /\ HasVersionPrefix(id.Key, x.Key)}

\* the extra files of the result describe exactly the objects vs
ExtrasAre(m, vs) ==
  /\ Len(m.result) = 1 + Cardinality(vs)
  /\ {Id(m.target.Bucket, m.result[i].filepath) : i \in 2..Len(m.result)} = vs
  /\ \A i \in 2..Len(m.result) :
       /\ m.result[i].bucket = m.file.bucket
       /\ m.result[i].url_path = m.file.url_path
       /\ m.result[i].name = m.result[i].filepath.name

\* the descriptor of the file moved: the file without its staging directory
Moved(m) == [m.file EXCEPT !.fileStagingDir = Undefined, !.duplicate_found = @ \/ m.exists]

Settled(m) == m.pc \in {"resolved", "rejected"}

\* C4: under 'error', when the destination exists, moveFileRequest throws
\* DuplicateFile and leaves the destination and the staged source unchanged
C4_ErrorPolicyThrowsDuplicateFile ==
  \A k \in DOMAIN moves :
    LET m == moves[k] IN
      (Policy = "error" /\ m.exists) =>
        /\ m.pc = "rejected"
        /\ m.error.name = "DuplicateFile"
        /\ m.result = <<>>
        /\ Isolated(k) =>
             /\ Same(m.target, s3, m.before)
             /\ Same(m.source, s3, m.before)
             /\ \A v \in Versions(s3, m.target) \cup Versions(m.before, m.target) :
                  Same(v, s3, m.before)

C4_Witness ==
  \E k \in DOMAIN moves :
    /\ Policy = "error"
    /\ moves[k].exists
    /\ Isolated(k)
    /\ moves[k].pc = "rejected"
    /\ moves[k].source \in DOMAIN s3
    /\ s3[moves[k].target].data # s3[moves[k].source].data
    /\ pc = "failed"
    /\ err.name = "DuplicateFile"

\* C5: under 'skip', when the destination exists, moveFileRequest returns
\* one descriptor with duplicate_found, no extra file, and leaves the
\* destination and the staged source unchanged
C5_SkipPolicyLeavesBoth ==
  \A k \in DOMAIN moves :
    LET m == moves[k] IN
      (Policy = "skip" /\ m.exists) =>
        /\ m.pc = "resolved"
        /\ m.result = <<Moved(m)>>
        /\ m.result[1].duplicate_found = TRUE
        /\ Isolated(k) =>
             /\ Same(m.target, s3, m.before)
             /\ Same(m.source, s3, m.before)
             /\ \A v \in Versions(s3, m.target) \cup Versions(m.before, m.target) :
                  Same(v, s3, m.before)

C5_Witness ==
  \E k \in DOMAIN moves :
    /\ Policy = "skip"
    /\ moves[k].exists
    /\ Isolated(k)
    /\ moves[k].pc = "resolved"
    /\ moves[k].source \in DOMAIN s3
    /\ s3[moves[k].target].data # s3[moves[k].source].data
    /\ pc = "done"

\* C6: under 'replace', when the destination exists, moveFileRequest moves
\* the staged source onto the destination key: the destination holds the
\* content of the source, the source is gone, the previous content of the
\* destination is kept nowhere, and no extra file is returned
C6_ReplacePolicyOverwrites ==
  \A k \in DOMAIN moves :
    LET m == moves[k] IN
      (Policy = "replace" /\ m.exists /\ Isolated(k) /\ Settled(m)) =>
        /\ m.pc = "rejected" => m.source \notin DOMAIN m.before
        /\ m.pc = "resolved" =>
             /\ m.result = <<Moved(m)>>
             /\ m.target \in DOMAIN s3
             /\ s3[m.target].data = m.before[m.source].data
             /\ m.source \notin DOMAIN s3
             /\ Versions(s3, m.target) = Versions(m.before, m.target)
             /\ \A v \in Versions(s3, m.target) : Same(v, s3, m.before)

C6_Witness ==
  \E k \in DOMAIN moves :
    LET m == moves[k] IN
      /\ Policy = "replace"
      /\ m.exists
      /\ Isolated(k)
      /\ m.pc = "resolved"
      /\ m.before[m.target].data # m.before[m.source].data
      /\ Cksum(m.before[m.target].data) = Cksum(m.before[m.source].data)
      /\ Versions(m.before, m.target) # {}

\* the case of C7: 'version', the destination exists, the checksums are equal
SameChecksum(m) ==
  /\ Policy = "version"
  /\ m.exists
  /\ m.pc = "resolved"
  /\ Cksum(m.before[m.target].data) = Cksum(m.before[m.source].data)

\* C7 as claimed: under 'version' with equal checksums the destination is
\* untouched, the staged source deleted, and zero extra files are returned
C7_Claimed_NoExtraFiles ==
  \A k \in DOMAIN moves :
    LET m == moves[k] IN
      (SameChecksum(m) /\ Isolated(k)) =>
        /\ Same(m.target, s3, m.before)
        /\ m.source \notin DOMAIN s3
        /\ Len(m.result) = 1

\* C7 amended: under 'version' with equal checksums the destination is
\* untouched and the staged source deleted; the extra files returned are
\* the renamed versions already stored under the destination key (zero
\* when there is none), and no version is added or changed
C7_SameChecksumKeepsDestination ==
  \A k \in DOMAIN moves :
    LET m == moves[k] IN
      (SameChecksum(m) /\ Isolated(k)) =>
        /\ Same(m.target, s3, m.before)
        /\ m.source \notin DOMAIN s3
        /\ m.result[1] = Moved(m)
        /\ Versions(s3, m.target) = Versions(m.before, m.target)
        /\ \A v \in Versions(s3, m.target) : Same(v, s3, m.before)
        /\ ExtrasAre(m, Versions(m.before, m.target))

C7_Witness ==
  \E k \in DOMAIN moves :
    LET m == moves[k] IN
      /\ SameChecksum(m)
      /\ Isolated(k)
      /\ m.before[m.target].data # m.before[m.source].data
      /\ s3[m.target].data = m.before[m.target].data
      /\ Versions(m.before, m.target) = {}
      /\ Len(m.result) = 1
      /\ pc = "done"

\* the case of C8: 'version', the destination exists, the checksums differ
OtherChecksum(m) ==
  /\ Policy = "version"
  /\ m.exists
  /\ Cksum(m.before[m.target].data) # Cksum(m.before[m.source].data)

\* storage once the existing object is renamed: it is gone from the
\* destination key and is the one new version, the others being unchanged
RenamedOnce(m) ==
  LET new == Versions(s3, m.target) \ Versions(m.before, m.target) IN
    /\ Cardinality(new) = 1
    /\ \A v \in new : s3[v].data = m.before[m.target].data
                      /\ Len(v.Key.name.vers) = Len(m.target.Key.name.vers) + 1
    /\ \A v \in Versions(m.before, m.target) : Same(v, s3, m.before)

\* C8 as claimed: under 'version' with different checksums exactly one
\* extra file is returned with the newly placed file
C8_Claimed_OneExtraFile ==
  \A k \in DOMAIN moves :
    LET m == moves[k] IN
      (OtherChecksum(m) /\ Isolated(k) /\ m.pc = "resolved") =>
        /\ RenamedOnce(m)
        /\ s3[m.target].data = m.before[m.source].data
        /\ Len(m.result) = 2

\* C8 amended: under 'version' with different checksums the existing
\* object is renamed to a timestamp-suffixed version before the staged
\* source is moved to the destination key; the old content is then under
\* the renamed key and the destination holds the new content; the extra
\* files returned are the renamed original and the versions stored under
\* the key before (exactly one when there was none)
C8_OtherChecksumRenamesThenMoves ==
  \A k \in DOMAIN moves :
    LET m == moves[k] IN
      (OtherChecksum(m) /\ Isolated(k)) =>
        /\ m.pc \in {"checksumTarget", "checksumSource", "rename", "move", "list", "resolved"}
        /\ m.pc \in {"checksumTarget", "checksumSource", "rename"} =>
             Same(m.target, s3, m.before) /\ Same(m.source, s3, m.before)
        /\ m.pc = "move" =>
             /\ m.target \notin DOMAIN s3
             /\ Same(m.source, s3, m.before)
             /\ RenamedOnce(m)
        /\ m.pc \in {"list", "resolved"} =>
             /\ m.target \in DOMAIN s3
             /\ s3[m.target].data = m.before[m.source].data
             /\ m.source \notin DOMAIN s3
             /\ RenamedOnce(m)
        /\ m.pc = "resolved" =>
             /\ m.result[1] = Moved(m)
             /\ ExtrasAre(m, Versions(s3, m.target))
             /\ Len(m.result) = 2 + Cardinality(Versions(m.before, m.target))

C8_Witness ==
  \E k \in DOMAIN moves :
    LET m == moves[k] IN
      /\ OtherChecksum(m)
      /\ Isolated(k)
      /\ m.pc = "resolved"
      /\ Versions(m.before, m.target) = {}
      /\ Len(m.result) = 2
      /\ m.result[2].name.vers # <<>>
      /\ s3[Id(m.target.Bucket, m.result[2].filepath)].data = m.before[m.target].data
      /\ pc = "done"

\* C9: when the destination does not exist, under each of the four
\* policies, after moveFileRequest the destination key holds the content
\* of the staged source and the staged source is gone
C9_AbsentDestinationIsPlaced ==
  \A k \in DOMAIN moves :
    LET m == moves[k] IN
      (m.pc # "exists" /\ ~m.exists /\ Isolated(k)) =>
        /\ m.pc = "rejected" => m.source \notin DOMAIN m.before
        /\ m.pc \in {"list", "resolved"} =>
             /\ m.target \in DOMAIN s3
             /\ s3[m.target].data = m.before[m.source].data
             /\ m.source \notin DOMAIN s3
        /\ m.pc = "resolved" => m.result[1] = Moved(m) /\ ~m.result[1].duplicate_found

C9_Witness ==
  \E k \in DOMAIN moves :
    LET m == moves[k] IN
      /\ Policy = "skip"
      /\ ~m.exists
      /\ Isolated(k)
      /\ m.pc = "resolved"
      /\ m.target \notin DOMAIN m.before
      /\ m.source \in DOMAIN m.before
      /\ m.target \in DOMAIN s3
      /\ pc = "done"

\* the case of C10: the destination does not exist and the request returned
AbsentAndReturned(m) == m.pc = "resolved" /\ ~m.exists

\* C10 as claimed: when the destination does not exist only the moved
\* descriptor is returned, under every policy and for every content of
\* the destination bucket
C10_Claimed_NoExtraFiles ==
  \A k \in DOMAIN moves :
    LET m == moves[k] IN
      (AbsentAndReturned(m) /\ Isolated(k)) => m.result = <<Moved(m)>>

\* C10 amended: when the destination does not exist, only the moved
\* descriptor is returned under 'error', 'skip' and 'replace', for every
\* content of the destination bucket; under 'version' it is followed by
\* one extra file for every renamed version stored under the destination
\* key, so it is returned alone only when there is none
C10_AbsentDestinationExtras ==
  \A k \in DOMAIN moves :
    LET m == moves[k] IN
      AbsentAndReturned(m) =>
        /\ m.result[1] = Moved(m)
        /\ Policy # "version" => Len(m.result) = 1
        /\ (Policy = "version" /\ Isolated(k)) =>
             /\ Versions(s3, m.target) = Versions(m.before, m.target)
             /\ ExtrasAre(m, Versions(m.before, m.target))

C10_Witness ==
  \E k \in DOMAIN moves :
    LET m == moves[k] IN
      /\ AbsentAndReturned(m)
      /\ Isolated(k)
      /\ Policy = "version"
      /\ Versions(m.before, m.target) # {}
      /\ Len(m.result) = 1 + Cardinality(Versions(m.before, m.target))
      /\ m.target \in DOMAIN s3
      /\ pc = "done"

(***************************************************************************)
(* Properties of the configuration of an invocation.                       *)
(***************************************************************************)
\* the policy by the documented priority: the force flag, the config, the
\* collection of the config, 'error'
ClaimedPolicy ==
  IF event.cumulus_config.cumulus_context.forceDuplicateOverwrite = TRUE THEN "replace"
  ELSE IF event.config.duplicateHandling # Undefined THEN event.config.duplicateHandling
  ELSE IF event.config.collection.duplicateHandling # Undefined
    THEN event.config.collection.duplicateHandling
  ELSE "error"

\* C11 as claimed: the policy of the invocation is 'replace' under the
\* force flag, else config.duplicateHandling, else the duplicateHandling of
\* config.collection, else 'error'; the requests act by that policy
C11_Claimed_PolicyPriority ==
  /\ Policy = ClaimedPolicy
  /\ \A k \in DOMAIN moves :
       moves[k].error.name = "DuplicateFile" => ClaimedPolicy = "error"

\* C12 as claimed: with moveStagedFiles false the invocation changes
\* nothing in storage and returns the granules with their destinations
C12_Claimed_DryRun ==
  (~event.config.moveStagedFiles /\ PlanDone) =>
    /\ s3 = s3start
    /\ oplog = {}
    /\ moves = <<>>
    /\ pc = "done"
    /\ err = NoError
    /\ targeted # <<>>
    /\ granules = Output(targeted)

(***************************************************************************)
(* Properties of addInputFilesToGranules.                                  *)
(***************************************************************************)
\* the URIs that are the filename of a file of an input granule
AttachedUris ==
  LET gs == event.config.input_granules IN
    {uri \in {event.input[n] : n \in 1..Len(event.input)} :
       \E i \in 1..Len(gs) : \E j \in 1..Len(gs[i].files) : gs[i].files[j].filename = uri}

\* the input entries to attach: not empty and not attached yet
ToAttach == SelectSeq(event.input, LAMBDA f : f # NoUri /\ f \notin AttachedUris)

GranuleIdOf(uri) == event.config.granuleIdExtraction[uri[3].base]

KnownIds ==
  {event.config.input_granules[i].granuleId : i \in 1..Len(event.config.input_granules)}

\* the file object of a URI: its base name, its bucket, the URI itself
InputFile(uri) ==
  [name |-> uri[3], bucket |-> [name |-> uri[1], type |-> Undefined], filename |-> uri,
   filepath |-> NoPath, url_path |-> Undefined, fileStagingDir |-> Undefined,
   duplicate_found |-> FALSE]

\* C13: every input URI that is not the filename of a file of an input
\* granule is attached, in input order, to the granule of the id extracted
\* from it; the URIs already attached stay where they are; the invocation
\* fails when an extracted id is the id of no input granule
C13_InputFilesAttached ==
  LET gs == event.config.input_granules
      unknown == \E n \in 1..Len(ToAttach) : GranuleIdOf(ToAttach[n]) \notin KnownIds
  IN /\ unknown <=> Roster0.error # NoError
     /\ (unknown /\ PlanDone) => (pc = "failed" /\ err = Roster0.error /\ targeted = <<>>)
     /\ ~unknown =>
          /\ Len(Roster0.granules) = Len(gs)
          /\ \A i \in 1..Len(gs) :
               LET mine == SelectSeq(ToAttach, LAMBDA f : GranuleIdOf(f) = gs[i].granuleId)
               IN /\ Roster0.granules[i].granuleId = gs[i].granuleId
                  /\ Roster0.granules[i].files =
                       gs[i].files \o [n \in 1..Len(mine) |-> InputFile(mine[n])]
                  /\ targeted # <<>> =>
                       /\ Len(targeted[i].files) = Len(gs[i].files) + Len(mine)
                       /\ \A n \in 1..Len(mine) :
                            targeted[i].files[Len(gs[i].files) + n].name = mine[n][3]

\* one URI of the input is already attached to a granule and stays there,
\* another is attached to the granule of its id
C13_Witness ==
  /\ PlanDone
  /\ targeted # <<>>
  /\ Len(targeted) = 2
  /\ AttachedUris # {}
  /\ Len(ToAttach) = 1
  /\ Len(targeted[1].files) = 1 /\ targeted[1].granuleId = "G2"
  /\ Len(targeted[2].files) = 1 /\ targeted[2].files[1].name = hdf

(***************************************************************************)
(* Properties of updateCmrFileAccessURLs.                                  *)
(***************************************************************************)
\* the type of the configured bucket of that name
BucketType(name) ==
  LET bkts == event.config.buckets
  IN bkts[CHOOSE k \in DOMAIN bkts : bkts[k].name = name].type

\* the rewrites that got as far as building their upload
Rewrites == {i \in DOMAIN cmrpc : cmrpc[i].target.Bucket # Undefined}

\* the files of the granule of the CMR file i, after the moves
FilesAfterMoves(i) == granules[IndexOf(granules, cmrFiles[i].granuleId)].files

\* C14: the access URLs built for a granule are one entry for each file of
\* its file list after the moves whose bucket type is 'protected' (by the
\* distribution endpoint) or 'public' (the direct storage URL), in the
\* order of the files, and none for a file of another bucket type
C14_AccessURLsOfProtectedAndPublic ==
  \A i \in Rewrites :
    LET files == FilesAfterMoves(i)
        listed == SelectSeq(files,
                    LAMBDA f : BucketType(f.bucket.name) \in {"protected", "public"})
        urls == cmrpc[i].body.urls
    IN /\ Len(urls) = Len(listed)
       /\ \A n \in 1..Len(listed) :
            /\ urls[n].bucket = listed[n].bucket.name
            /\ urls[n].filepath = listed[n].filepath
            /\ urls[n].via = IF BucketType(listed[n].bucket.name) = "protected"
                               THEN "distribution" ELSE "s3"
       /\ (cmrpc[i].pc \in {"delete", "resolved"} /\ cmrpc[i].target \in DOMAIN s3) =>
            s3[cmrpc[i].target].urls = urls

\* a granule with a private, a public and a protected file, and a renamed
\* version of the public one: the uploaded CMR file lists three of the four
C14_Witness ==
  \E i \in Rewrites :
    /\ pc = "done"
    /\ Len(FilesAfterMoves(i)) = 4
    /\ {BucketType(FilesAfterMoves(i)[n].bucket.name) : n \in 1..4}
         = {"private", "public", "protected"}
    /\ Len(s3[cmrpc[i].target].urls) = 3
    /\ s3[cmrpc[i].target].urls[1].via = "s3"
    /\ s3[cmrpc[i].target].urls[3].via = "distribution"

\* the objects uploaded by a rewrite
oplogUploads == {x.id : x \in {y \in oplog : y.op = "upload"}}

\* C15 as claimed: from the start of the rewrite of a CMR file on, a copy
\* of it is in storage, at its staged location or at its destination,
\* whatever the destination; the old copy is there until the new one is
\* uploaded, and stays when the upload fails
C15_Claimed_CopyAlwaysExists ==
  \A i \in Rewrites :
    /\ cmrpc[i].old \in DOMAIN s3 \/ cmrpc[i].target \in DOMAIN s3
    /\ cmrpc[i].pc \in {"upload", "rejected"} => cmrpc[i].old \in DOMAIN s3
    /\ cmrpc[i].pc \in {"delete", "resolved"} => cmrpc[i].target \in oplogUploads

(***************************************************************************)
(* Properties of the output and of the joins of the moves.                 *)
(***************************************************************************)
BucketNames == {event.config.buckets[k].name : k \in DOMAIN event.config.buckets}

\* C16: in the output of a successful invocation the bucket of every file
\* of every granule is the name of a bucket, not the {name, type} object
C16_OutputBucketsAreNames ==
  pc = "done" =>
    \A i \in 1..Len(granules) : \A j \in 1..Len(granules[i].files) :
      /\ granules[i].files[j].bucket.type = Undefined
      /\ granules[i].files[j].bucket.name \in BucketNames

\* the output holds a moved file, a renamed version of it and the CMR file
C16_Witness ==
  /\ pc = "done"
  /\ \E i \in 1..Len(granules) :
       /\ Len(granules[i].files) >= 3
       /\ \E j \in 1..Len(granules[i].files) : granules[i].files[j].name.vers # <<>>
       /\ \E j \in 1..Len(granules[i].files) : IsCmrName(granules[i].files[j].name)
       /\ \A j \in 1..Len(granules[i].files) :
            granules[i].files[j].bucket.name \in {"protected-bucket", "public-bucket"}

InFlight(m) == ~Settled(m)

\* moveFilesForAllGranules has returned or thrown
Returned == pc \in {"cmr", "done", "failed"} /\ moves # <<>>

\* C17 as claimed: when moveFilesForAllGranules has returned, with a result
\* or with an error, no request of the invocation is in flight
C17_Claimed_ReturnsAfterAllMoves ==
  Returned => \A k \in DOMAIN moves : ~InFlight(moves[k])

\* C17 amended: moveFilesForAllGranules returns a result only when every
\* request of every granule has resolved, and no request is in flight
\* then; it throws as soon as one request is rejected, whatever the state
\* of the others, which go on to their end
C17_ReturnsResultAfterAllMoves ==
  /\ (pc \in {"cmr", "done"} \/ (pc = "failed" /\ cmrpc # <<>>)) =>
       \A k \in DOMAIN moves : moves[k].pc = "resolved"
  /\ pc = "moving" => \A k \in DOMAIN moves : moves[k].pc # "rejected"
  /\ (pc = "moving" /\ moves # <<>>) => \E k \in DOMAIN moves : InFlight(moves[k])
  /\ (pc = "failed" /\ moves # <<>> /\ cmrpc = <<>>) =>
       \E k \in DOMAIN moves : moves[k].pc = "rejected"

\* the invocation has failed on a rejected request while another request
\* is still to move its file
C17_Witness ==
  /\ pc = "failed"
  /\ \E k \in DOMAIN moves : moves[k].pc = "rejected" /\ moves[k].error = err
  /\ \E k \in DOMAIN moves : moves[k].pc = "move" /\ moves[k].source \in DOMAIN s3

\* the request has put its file at the destination, or, under 'version',
\* has found the same content there, and has returned
Placed(m) == m.pc = "resolved" /\ ~(m.exists /\ Policy = "skip")

\* the file of a placed request is at its destination, its staged source gone
AtDestination(m, st) ==
  /\ m.target \in DOMAIN st
  /\ m.source \notin DOMAIN st
  /\ \/ st[m.target].data = m.before[m.source].data
     \/ /\ Policy = "version" /\ m.exists
        /\ Cksum(m.before[m.target].data) = Cksum(m.before[m.source].data)
        /\ st[m.target] = m.before[m.target]

NewlyRejected(k) == moves[k].pc # "rejected" /\ moves'[k].pc = "rejected"

\* C18: the moves are not rolled back: the invocation fails with the error
\* of the first request that is rejected and keeps it; the files of the
\* requests that have completed, before or after the failure, stay at
\* their destinations with their staged sources gone
C18_NoRollbackOnFailure ==
  [][/\ (pc = "moving" /\ \E k \in DOMAIN moves : NewlyRejected(k)) =>
          /\ pc' = "failed"
          /\ \E k \in DOMAIN moves : NewlyRejected(k) /\ err' = moves'[k].error
     /\ pc = "failed" => (pc' = "failed" /\ err' = err)
     /\ \A k \in DOMAIN moves :
          /\ moves[k].pc = "resolved" => moves'[k] = moves[k]
          /\ (Placed(moves'[k]) /\ Isolated(k)) => AtDestination(moves'[k], s3')]_vars

\* the invocation has failed with DuplicateFile for one file while the file
\* of another request is at its destination and not in staging
C18_Witness ==
  /\ pc = "failed"
  /\ err.name = "DuplicateFile"
  /\ \A k \in DOMAIN moves : Settled(moves[k])
  /\ \E k \in DOMAIN moves : moves[k].pc = "rejected" /\ moves[k].source \in DOMAIN s3
  /\ \E k \in DOMAIN moves :
       /\ Placed(moves[k])
       /\ Isolated(k)
       /\ moves[k].target \notin DOMAIN s3start
       /\ AtDestination(moves[k], s3)

(***************************************************************************)
(* Properties of a second invocation with the same event.                  *)
(***************************************************************************)
LastRun == runs[Len(runs)]

\* the run before this one failed after it had moved the file of request k
\* to its destination: the staged source is gone, the destination is there
AlreadyMoved(k) ==
  /\ runs # <<>>
  /\ LastRun.pc = "failed"
  /\ k \in DOMAIN LastRun.moves
  /\ LastRun.moves[k].pc = "resolved"
  /\ moves[k].source \in DOMAIN s3start
  /\ moves[k].source \notin DOMAIN LastRun.s3
  /\ moves[k].target \in DOMAIN LastRun.s3

\* C19 as claimed: under 'skip' and under 'version', a file that the
\* failed run before has moved is handled without error by the next run,
\* and the content of its destination is unchanged
C19_Claimed_RerunIdempotent ==
  \A k \in DOMAIN moves :
    (Policy \in {"skip", "version"} /\ AlreadyMoved(k) /\ Isolated(k)) =>
      /\ moves[k].pc # "rejected"
      /\ moves[k].target \in DOMAIN s3
      /\ s3[moves[k].target].data = LastRun.s3[moves[k].target].data

\* the event of C20: one granule, a data file and its CMR file
DataAndCmr ==
  /\ Len(event.config.input_granules) = 1
  /\ \E n \in 1..Len(event.input) : IsCmrUri(event.input[n])

\* the CMR files of the event are staged
CmrStaged(st) ==
  \A n \in 1..Len(event.input) :
    IsCmrUri(event.input[n]) => parseS3Uri(event.input[n]) \in DOMAIN st

\* the file lists are the same but for duplicate_found of the data files,
\* which is set in the second
SameButDuplicateFound(first, second) ==
  /\ Len(first) = Len(second)
  /\ \A i \in 1..Len(first) :
       /\ first[i].granuleId = second[i].granuleId
       /\ Len(first[i].files) = Len(second[i].files)
       /\ \A j \in 1..Len(first[i].files) :
            second[i].files[j] =
              IF IsCmrName(first[i].files[j].name) THEN first[i].files[j]
              ELSE [first[i].files[j] EXCEPT !.duplicate_found = TRUE]

\* C20 as claimed: under 'skip', a second invocation with the same event
\* succeeds after a first that succeeded, and returns the same file lists
\* with duplicate_found set on the data file
C20_Claimed_SecondRunSameFiles ==
  (Policy = "skip" /\ DataAndCmr /\ runs # <<>> /\ LastRun.pc = "done") =>
    /\ pc # "failed"
    /\ pc = "done" => SameButDuplicateFound(LastRun.granules, granules)

\* C20 amended: under 'skip', when the CMR file of the event is staged
\* again before the second invocation, it succeeds after a first that
\* succeeded and returns the same file lists with duplicate_found set on
\* the data file; when it is not staged again the second invocation fails
\* on reading the CMR file, which the first has deleted from staging
C20_SecondRunAfterRestaging ==
  (Policy = "skip" /\ DataAndCmr /\ runs # <<>> /\ LastRun.pc = "done") =>
    /\ CmrStaged(LastRun.s3) =>
         /\ pc # "failed"
         /\ pc = "done" => SameButDuplicateFound(LastRun.granules, granules)
    /\ (~CmrStaged(LastRun.s3) /\ pc # "start") =>
         (pc = "failed" /\ err.name = "NoSuchKey" /\ moves = <<>> /\ cmrpc = <<>>)

\* both invocations are done, the files staged again in between; the data
\* file was moved by the first and found at its destination by the second
C20_Witness ==
  /\ Policy = "skip"
  /\ DataAndCmr
  /\ Len(runs) = 1
  /\ LastRun.pc = "done"
  /\ CmrStaged(LastRun.s3)
  /\ pc = "done"
  /\ ~LastRun.granules[1].files[1].duplicate_found
  /\ granules[1].files[1].duplicate_found
  /\ Len(granules[1].files) = 2


(***************************************************************************)
(* Requests of one invocation that share a destination.                    *)
(***************************************************************************)
\* the jpg of a second granule, staged in a directory of its own
jpgOfG2 ==
  File(jpg, StagingBucket, <<StagingBucket, "alt-staging", jpg>>, Undefined, "alt-staging")

\* the rosters of the shared runs: the same staged URI given twice, and two
\* granules that each hold a file named G1.jpg
SharedRosters ==
  {Roster(<<Granule("G1", <<>>)>>, <<Staged(hdf), Staged(hdf), Staged(cmrXml)>>),
   Roster(<<Granule("G1", <<Attached(jpg)>>), Granule("G2", <<jpgOfG2>>)>>,
          <<Staged(cmrXml)>>)}

\* the shared runs: at every destination the same content, or none
InitShared ==
  \E roster \in SharedRosters, duplicateHandling \in Policies :
    LET collection == Collection(<<RuleHdf, RuleJpg, RuleCmr>>, "data")
        ev == Event(roster, collection, AllBuckets, duplicateHandling)
    IN \E data \in 0..2, versions \in {{}, Targets(ev)} :
         Start(ev, Storage(ev, [f \in Targets(ev) |-> data], versions))

SpecShared == InitShared /\ [][Next]_vars

\* the requests that run at the same time as request k
Concurrent(k) == {j \in DOMAIN moves : j # k /\ InFlight(moves[j]) /\ InFlight(moves[k])}

\* C21: within one invocation no two requests that run at the same time
\* have the same destination bucket and key, whatever the input.
C21_Claimed_DistinctDestinations ==
  \A k \in DOMAIN moves : \A j \in Concurrent(k) : moves[j].target # moves[k].target

(***************************************************************************)
(* The rewrites of the CMR files of several granules.                      *)
(***************************************************************************)
RuleCmrs == Rule(Regex({"G1.cmr.xml", "G2.cmr.xml"}, TRUE), "protected", "{granule.granuleId}")

\* the runs of two rewrites: two granules, each of a data file and its CMR
\* file
InitCmrs ==
  \E duplicateHandling \in Policies :
    LET roster == Roster(<<Granule("G1", <<>>), Granule("G2", <<>>)>>,
                         <<Staged(hdf), Staged(cmrXml), Staged(hdf2), Staged(cmrXml2)>>)
        collection == Collection(<<RuleHdf, RuleCmrs>>, "data")
        ev == Event(roster, collection, AllBuckets, duplicateHandling)
    IN \E there \in [Targets(ev) -> 0..2], versions \in SUBSET Targets(ev) :
         Start(ev, Storage(ev, there, versions))

SpecCmrs == InitCmrs /\ [][NextCmrs]_vars

Uploaded(i) == [op |-> "upload", id |-> cmrpc[i].target] \in oplog

OldDeleted(i) == [op |-> "delete", id |-> cmrpc[i].old] \in oplog

\* a rewrite other than i has failed
OtherFailed(i) == \E j \in DOMAIN cmrpc : j # i /\ cmrpc[j].pc = "rejected"

\* C22: the rewrites of the CMR files run independently: whatever the state
\* of the other rewrites and of moveGranules (failed or not), a rewrite that
\* waits for its upload can do it, one that has uploaded can delete its old
\* copy, and one that has resolved has done its upload and its delete.
C22_RewritesAreIndependent ==
  \A i \in DOMAIN cmrpc :
    /\ cmrpc[i].pc = "upload" => ENABLED CmrUpload(i)
    /\ cmrpc[i].pc = "delete" => Uploaded(i) /\ ENABLED CmrDelete(i)
    /\ cmrpc[i].pc = "resolved" => Uploaded(i) /\ OldDeleted(i)

\* moveGranules has failed with the error of one rewrite, and the other
\* rewrite has made its upload and deleted its old copy
C22_Witness ==
  /\ pc = "failed"
  /\ err.name = "S3Error"
  /\ \E i \in DOMAIN cmrpc :
       /\ OtherFailed(i)
       /\ cmrpc[i].pc = "resolved"
       /\ Uploaded(i) /\ OldDeleted(i)
       /\ cmrpc[i].target \in DOMAIN s3
       /\ cmrpc[i].old \notin DOMAIN s3

(***************************************************************************)
(* The end-to-end runs: granule G1 with the staged files A.hdf and         *)
(* A.hdf.cmr.xml.                                                          *)
(***************************************************************************)
aHdf == N("A.hdf", <<>>)

aCmr == N("A.hdf.cmr.xml", <<>>)

\* the rule /^A\.hdf$/
RuleA(template) == Rule(Regex({"A.hdf"}, TRUE), "protected", template)

\* the rule /A\.hdf/, which the name of the CMR file matches too
RuleAOpen(template) == Rule(Regex({"A.hdf", "A.hdf.cmr.xml"}, FALSE), "protected", template)

RuleACmr(bucket) == Rule(Regex({"A.hdf.cmr.xml"}, TRUE), bucket, "{granule.granuleId}")

CatalogRuleLists ==
  UNION {{<<RuleA(t)>>, <<RuleAOpen(t)>>} \cup
         {<<RuleA(t), RuleACmr(b)>> : b \in {"protected", "public", "private"}} :
           t \in {"{cmrMetadata.ShortName}", "{cmrMetadata.Granule.Collection.ShortName}"}}

\* the files of the event with their destinations, given the CMR files
Classified(ev, cf) ==
  updateGranuleMetadata(
    addInputFilesToGranules(ev.input, ev.config.input_granules,
                            ev.config.granuleIdExtraction).granules,
    ev.config.collection, cf, ev.config.buckets)

\* the destinations of the CMR files of the event, when its files classify
CmrTargets(classified) ==
  IF classified.error # NoError THEN {}
  ELSE UNION {{TargetOf(CmrFileOf(classified.granules[i])[j]) :
                 j \in 1..Len(CmrFileOf(classified.granules[i]))} :
                i \in 1..Len(classified.granules)}

\* the destinations of the data files of the event, when its files classify
DataTargets(classified) ==
  IF classified.error # NoError THEN {}
  ELSE UNION {{FilesToMove(classified.granules[i])[j] :
                 j \in 1..Len(FilesToMove(classified.granules[i]))} :
                i \in 1..Len(classified.granules)}

\* storage st with the staged CMR file of content doc and, when cmrThere,
\* an earlier CMR file at each destination of a CMR file
WithCatalog(st, staged, doc, cmrTargets, cmrThere) ==
  [id \in (DOMAIN st) \cup (IF cmrThere THEN cmrTargets ELSE {}) |->
     IF id = staged THEN [st[id] EXCEPT !.data = doc]
     ELSE IF id \in DOMAIN st THEN st[id]
     ELSE [data |-> 0, urls |-> OldURLs, acl |-> "private"]]

InitCatalog ==
  \E files \in CatalogRuleLists, doc \in 0..8, duplicateHandling \in Policies,
     cmrThere \in BOOLEAN :
    LET roster == Roster(<<Granule("G1", <<>>)>>, <<Staged(aHdf), Staged(aCmr)>>)
        ev == Event(roster, Collection(files, "data"), CmrBuckets, duplicateHandling)
        staged == parseS3Uri(Staged(aCmr))
        st0 == WithCatalog(Storage(ev, <<>>, {}), staged, doc, {}, FALSE)
        classified == Classified(ev, getCmrFiles(ev.input, ev.config.granuleIdExtraction, st0).files)
    IN \E there \in [DataTargets(classified) -> 0..2],
          versions \in {{}, DataTargets(classified)} :
         Start(ev, WithCatalog(Storage(ev, there, versions), staged, doc,
                               CmrTargets(classified), cmrThere))

SpecCatalog == InitCatalog /\ [][Next]_vars

StagedHdf == Id(StagingBucket, K("file-staging", aHdf))

StagedCmr == parseS3Uri(Staged(aCmr))

\* the template of the rule of A.hdf
TemplateOf == event.config.collection.files[1].url_path

\* the content of the staged CMR file before the invocation
DocOf == s3start[StagedCmr].data

\* the end-to-end scenario: policy 'error', and no object in storage but
\* the two staged files
Scenario ==
  /\ event.input = <<Staged(aHdf), Staged(aCmr)>>
  /\ duplicateHandlingType(event) = "error"
  /\ DOMAIN s3start = {StagedHdf, StagedCmr}

\* A.hdf is at protected/<ShortName>/A.hdf and no longer staged
HdfMoved ==
  /\ Id("protected-bucket", K("MOD09", aHdf)) \in DOMAIN s3
  /\ s3[Id("protected-bucket", K("MOD09", aHdf))].data = StagedData(aHdf)
  /\ StagedHdf \notin DOMAIN s3

\* the rewritten CMR file has one OnlineAccessURL, that of A.hdf
OneAccessURL ==
  /\ Len(cmrpc) = 1
  /\ cmrpc[1].target \in DOMAIN s3
  /\ s3[cmrpc[1].target].urls =
       <<[via |-> "distribution", bucket |-> "protected-bucket",
          filepath |-> K("MOD09", aHdf)]>>

\* C23 as claimed: in the end-to-end scenario with a rule that sends A.hdf
\* to 'protected' with the template {cmrMetadata.ShortName}, moveGranules
\* succeeds, A.hdf ends at protected/<ShortName>/A.hdf and the rewritten CMR
\* file has exactly one OnlineAccessURL, that of A.hdf.
C23_Claimed_EndToEnd ==
  (Scenario /\ TemplateOf = "{cmrMetadata.ShortName}" /\ Quiescent)
    => (pc = "done" /\ HdfMoved /\ OneAccessURL)

\* C23 amended: in the end-to-end scenario with the template
\* {cmrMetadata.Granule.Collection.ShortName}, a rule that sends the CMR file
\* to a private bucket and a CMR document whose root is Granule, A.hdf ends
\* at protected/<ShortName>/A.hdf; moveGranules succeeds with exactly one
\* OnlineAccessURL, that of A.hdf, when the Granule element has one of
\* OnlineAccessURLs, OnlineResources and Orderable, and fails with a
\* TypeError when it has none.
C23_EndToEndWithCmrRule ==
  ( /\ Scenario
    /\ event.config.collection.files =
         <<RuleA("{cmrMetadata.Granule.Collection.ShortName}"), RuleACmr("private")>>
    /\ DocOf # 8
    /\ Quiescent )
    => /\ HdfMoved
       /\ IF AccessKeys(DocOf) # <<>>
            THEN pc = "done" /\ OneAccessURL
            ELSE pc = "failed" /\ err.name = "TypeError"

\* the end-to-end scenario has run to its end with the CMR file rewritten
C23_Witness ==
  /\ Scenario
  /\ event.config.collection.files =
       <<RuleA("{cmrMetadata.Granule.Collection.ShortName}"), RuleACmr("private")>>
  /\ Quiescent
  /\ pc = "done"
  /\ HdfMoved
  /\ OneAccessURL
  /\ StagedCmr \notin DOMAIN s3

(***************************************************************************)
(* The precedence of the path templates.                                   *)
(***************************************************************************)
\* the path runs: a file that carries a url_path of its own (or none), a
\* rule for it with a url_path (or none), a collection with one (or none)
InitPaths ==
  \E ofFile \in {Undefined, "", "browse"},
     ofRule \in {Undefined, "", "{granule.granuleId}", "static"},
     ofCollection \in {Undefined, "", "data"}, bkts \in BucketMaps :
    LET roster == Roster(<<Granule("G1", <<File(jpg, StagingBucket, Staged(jpg),
                                                ofFile, Undefined)>>)>>,
                         <<Staged(hdf)>>)
        collection == Collection(<<RuleHdf, [RuleJpg EXCEPT !.url_path = ofRule]>>,
                                 ofCollection)
        ev == Event(roster, collection, bkts, "error")
    IN Start(ev, Storage(ev, [f \in Targets(ev) |-> 0], {}))

SpecPaths == InitPaths /\ [][NextClassify]_vars

\* the files updateGranuleMetadata was given and has returned, in pairs
Classifications ==
  IF ~PlanDone \/ targeted = <<>> THEN {}
  ELSE UNION {{[granule |-> Roster0.granules[i], before |-> Roster0.granules[i].files[j],
                after |-> targeted[i].files[j]] : j \in 1..Len(targeted[i].files)} :
                i \in 1..Len(targeted)}

\* the templates of a file in the order of their precedence
TemplatesOf(file) ==
  <<file.url_path, TheRule(file).url_path, event.config.collection.url_path, "">>

\* the first template of the list that is not among the values of none
FirstBut(templates, none) ==
  templates[CHOOSE n \in 1..Len(templates) :
              /\ templates[n] \notin none
              /\ \A m \in 1..(n - 1) : templates[m] \in none]

\* the path of a template for a granule
Expanded(template, granule) ==
  IF template = "{granule.granuleId}" THEN granule.granuleId ELSE template

\* C24 as claimed: the path of a file comes from the first defined of the
\* url_path of the file, of the matched rule, of the collection and '': a
\* defined url_path of the file wins, the empty string included.
C24_Claimed_FirstDefinedWins ==
  \A c \in Classifications :
    c.after.filepath.dir = Expanded(FirstBut(TemplatesOf(c.before), {Undefined}), c.granule)

\* C24 amended: the path of a file comes from the first non-empty of the
\* url_path of the file, of the matched rule and of the collection, and is
\* empty when there is none: a url_path of the file that is the empty
\* string does not win over the rule or the collection.
C24_FirstNonEmptyWins ==
  \A c \in Classifications :
    /\ IF \A n \in 1..3 : TemplatesOf(c.before)[n] \in {Undefined, ""}
         THEN c.after.filepath.dir = ""
         ELSE c.after.filepath.dir =
                Expanded(FirstBut(TemplatesOf(c.before), {Undefined, ""}), c.granule)
    /\ c.after.filepath.name = c.before.name

\* a file with a url_path of its own is placed under it, not under the
\* path of its rule or of the collection
C24_Witness ==
  \E c \in Classifications :
    /\ c.before.url_path = "browse"
    /\ TheRule(c.before).url_path = "static"
    /\ event.config.collection.url_path = "data"
    /\ c.after.filepath = K("browse", jpg)

(***************************************************************************)
(* The order of the moves and the rewrites.                                *)
(***************************************************************************)
\* the storage calls of the rewrites made so far: the uploads, and the
\* deletes of the staged CMR files
CmrOps ==
  {o \in oplog :
     \/ o.op = "upload"
     \/ o.op = "delete" /\ \E i \in DOMAIN cmrFiles : o.id = parseS3Uri(cmrFiles[i].filename)}

\* C25: the rewrites of the CMR files start only when the requests of all
\* files of all granules have resolved: while a request is in flight, and
\* for good once a request is rejected, no CMR file is uploaded and no
\* staged CMR file is deleted.
C25_RewritesAfterAllMoves ==
  (CmrOps # {} \/ cmrpc # <<>>) =>
    /\ \A k \in DOMAIN moves : moves[k].pc = "resolved"
    /\ joined = 1..Len(targeted)

\* both CMR files are rewritten, after the data files of both granules moved
C25_Witness ==
  /\ pc = "done"
  /\ Cardinality(DOMAIN moves) = 2
  /\ \A k \in DOMAIN moves : [op |-> "move", id |-> moves[k].target] \in oplog
  /\ Cardinality(CmrOps) = 4

(***************************************************************************)
(* The file lists after the moves.                                         *)
(***************************************************************************)
\* moveFilesForAllGranules has returned the granules
AllMoved == moves # <<>> /\ joined = 1..Len(targeted) /\ pc \in {"cmr", "done", "failed"}

\* the results of the requests of granule i in the order of its files,
\* then its CMR files as updateGranuleMetadata returned them
FilesExpected(i) ==
  Flatten([j \in 1..Len(FilesToMove(targeted[i])) |-> moves[<<i, j>>].result])
    \o CmrFileOf(targeted[i])

GranulesExpected == [i \in 1..Len(targeted) |-> [targeted[i] EXCEPT !.files = FilesExpected(i)]]

\* the result of request k is the descriptor of its file at its
\* destination, then renamed versions of that destination
OwnResult(k) ==
  LET m == moves[k] IN
    /\ m.result # <<>>
    /\ m.result[1].name = m.file.name
    /\ m.result[1].filename = m.file.filename
    /\ \A n \in 2..Len(m.result) :
         /\ m.result[n].bucket = m.file.bucket
         /\ HasVersionPrefix(m.target.Key, m.result[n].filepath)

\* the entries of the list of granule i that name the file
Entries(i, filename) ==
  {n \in 1..Len(granules[i].files) : granules[i].files[n].filename = filename}

\* C26 as claimed: after moveFilesForAllGranules the list of each granule
\* is the results of its requests in the order of its files, then its CMR
\* files; every file moved is named by exactly one entry, and no entry of
\* one granule names a file of another granule's list.
C26_Claimed_EachFileOnce ==
  AllMoved =>
    /\ granules = IF pc = "done" THEN Output(GranulesExpected) ELSE GranulesExpected
    /\ \A k \in DOMAIN moves :
         OwnResult(k) /\ Cardinality(Entries(k[1], moves[k].file.filename)) = 1
    /\ \A i \in 1..Len(granules) : \A n \in 1..Len(granules[i].files) :
         \A i2 \in (1..Len(granules)) \ {i} : Entries(i2, granules[i].files[n].filename) = {}

\* C26 amended: after moveFilesForAllGranules the list of each granule is,
\* for each of its files that is not a CMR file and in their order, the
\* descriptor of the file at its destination followed by the renamed
\* versions that its request listed, then the CMR files of the granule
\* unchanged; every file moved is named by at least one entry.
C26_ListsAreResultsThenCmr ==
  AllMoved =>
    /\ granules = IF pc = "done" THEN Output(GranulesExpected) ELSE GranulesExpected
    /\ \A k \in DOMAIN moves :
         OwnResult(k) /\ Entries(k[1], moves[k].file.filename) # {}
    /\ \A i \in 1..Len(granules) :
         Len(granules[i].files) >= Len(targeted[i].files)

\* a granule of two data files is returned with a renamed version listed
\* after one of them
C26_Witness ==
  /\ AllMoved
  /\ \E i \in 1..Len(granules) :
       /\ Len(FilesToMove(targeted[i])) = 2
       /\ Len(moves[<<i, 1>>].result) >= 2
       /\ granules[i].files[Len(moves[<<i, 1>>].result) + 1].name = targeted[i].files[2].name

(***************************************************************************)
(* The splice of the new URLs into the Granule element.                    *)
(***************************************************************************)
\* the rewrite i has a document with a Granule element and a granule
Splicing(i) ==
  /\ cmrFiles[i].metadataObject.root = "Granule"
  /\ HasKey(targeted, cmrFiles[i].granuleId)

\* the list of URLs that the rewrite i built from the files of its granule
UrlsBuilt(i) == AccessURLs(GranulesExpected[IndexOf(targeted, cmrFiles[i].granuleId)].files)

\* the Granule element of rewrite i has the URLs built as its
\* OnlineAccessURLs.OnlineAccessURL, and its other keys as they were parsed
SplicedInto(i) ==
  LET before == cmrFiles[i].metadataObject.Granule
      after == cmrpc[i].Granule
  IN /\ cmrpc[i].error.msg # "Cannot set property 'OnlineAccessURL' of undefined"
     /\ HasProp(after, "OnlineAccessURLs")
     /\ GetProp(after, "OnlineAccessURLs").OnlineAccessURL = UrlsBuilt(i)
     /\ \A n \in 1..Len(before) :
          before[n].key # "OnlineAccessURLs" =>
            HasProp(after, before[n].key) /\ GetProp(after, before[n].key) = before[n].value

\* C27 as claimed: for every CMR file whose document has a Granule element,
\* whichever of OnlineAccessURLs, OnlineResources and Orderable the element
\* has, the splice completes without error, and then
\* Granule.OnlineAccessURLs.OnlineAccessURL is the list of URLs built and
\* every other key of the element keeps its value.
C27_Claimed_SpliceAlwaysCompletes ==
  \A i \in DOMAIN cmrpc : Splicing(i) => SplicedInto(i)

\* the same for the elements that have at least one of the three keys
C27_SpliceWithOneOfTheKeys ==
  \A i \in DOMAIN cmrpc :
    Splicing(i) /\ AccessKeys(cmrFiles[i].metadataObject.data) # <<>> => SplicedInto(i)

\* a splice that replaced the entries of an element with all three keys
C27_Witness ==
  \E i \in DOMAIN cmrpc :
    /\ Splicing(i)
    /\ Len(AccessKeys(cmrFiles[i].metadataObject.data)) = 3
    /\ UrlsBuilt(i) # <<>>
    /\ SplicedInto(i)

(***************************************************************************)
(* The CMR file and the duplicate-handling policy.                         *)
(***************************************************************************)
\* an object was stored at the destination of rewrite i before the run
Preexisting(i) == cmrpc[i].target \in DOMAIN s3start

\* C28: the CMR file is not under the duplicate-handling policy: no request
\* of moveFilesForAllGranules is for a file named .cmr.xml; under every
\* policy a rewrite that waits for its upload can do it whether or not an
\* object is stored at its destination, and after the upload the
\* destination holds the new body; no rewrite fails with DuplicateFile and
\* no CMR file of a granule has duplicate_found set.
C28_CmrFileOutsidePolicy ==
  /\ \A k \in DOMAIN moves : ~IsCmrName(moves[k].file.name)
  /\ \A i \in DOMAIN cmrpc :
       /\ cmrpc[i].pc = "upload" => ENABLED CmrUpload(i)
       /\ cmrpc[i].pc = "delete" =>
            cmrpc[i].target \in DOMAIN s3 /\ s3[cmrpc[i].target] = cmrpc[i].body
       /\ cmrpc[i].error.name # "DuplicateFile"
  /\ \A i \in 1..Len(granules) : \A n \in 1..Len(granules[i].files) :
       IsCmrName(granules[i].files[n].name) => ~granules[i].files[n].duplicate_found

\* under 'error' or 'skip' a rewrite has replaced an object that was stored
\* at its destination before the run
C28_Witness ==
  /\ Policy \in {"error", "skip"}
  /\ \E i \in DOMAIN cmrpc :
       /\ Preexisting(i)
       /\ cmrpc[i].target # cmrpc[i].old
       /\ cmrpc[i].pc = "delete"
       /\ s3[cmrpc[i].target] = cmrpc[i].body
       /\ s3start[cmrpc[i].target] # cmrpc[i].body

(***************************************************************************)
(* The duplicate_found flag of the descriptors returned.                   *)
(***************************************************************************)
\* the runs with a file of input_granules that carries duplicate_found, as
\* a descriptor returned by an earlier move does
InitFlagged ==
  \E flag \in BOOLEAN, duplicateHandling \in Policies :
    LET flagged == [Attached(jpg) EXCEPT !.duplicate_found = flag]
        roster == Roster(<<Granule("G1", <<flagged>>)>>, <<Staged(hdf), Staged(cmrXml)>>)
        collection == Collection(<<RuleHdf, RuleJpg, RuleCmr>>, "data")
        ev == Event(roster, collection, AllBuckets, duplicateHandling)
    IN \E there \in [Targets(ev) -> 0..2], versions \in SUBSET Targets(ev) :
         Start(ev, Storage(ev, there, versions))

SpecFlagged == InitFlagged /\ [][Next]_vars

\* an object was stored at the destination of the request when it probed
ExistedAtProbe(m) == m.target \in DOMAIN m.before

\* C29 as claimed: when moveFileRequest returns, the first descriptor
\* returned has duplicate_found set if and only if an object was stored at
\* the destination when the request probed it, and no descriptor of a
\* renamed version has the flag set.
C29_Claimed_FlagIffExistedAtProbe ==
  \A k \in DOMAIN moves :
    LET m == moves[k] IN
      m.pc = "resolved" =>
        /\ m.result # <<>>
        /\ m.result[1].duplicate_found <=> ExistedAtProbe(m)
        /\ \A n \in 2..Len(m.result) : ~m.result[n].duplicate_found

\* what the requests do: the first descriptor has the flag if and only if
\* the destination was there at the probe or the descriptor of the input
\* had it already; the renamed versions never have it
C29_FlagIffExistedOrCarried ==
  \A k \in DOMAIN moves :
    LET m == moves[k] IN
      m.pc = "resolved" =>
        /\ m.result # <<>>
        /\ m.result[1].duplicate_found <=> (ExistedAtProbe(m) \/ m.file.duplicate_found)
        /\ \A n \in 2..Len(m.result) : ~m.result[n].duplicate_found

\* a request has returned the flagged descriptor of its file, then a
\* renamed version without the flag
C29_FlaggedThenRenamed ==
  \E k \in DOMAIN moves :
    /\ moves[k].pc = "resolved"
    /\ ExistedAtProbe(moves[k])
    /\ moves[k].result[1].duplicate_found
    /\ Len(moves[k].result) >= 2
    /\ ~moves[k].result[2].duplicate_found

(***************************************************************************)
(* The merge of the input list: each URI once.                             *)
(***************************************************************************)
\* the files of the granules of addInputFilesToGranules whose filename is the URI
FilesNamed(uri) ==
  {k \in FilesOf(Roster0.granules) : Roster0.granules[k[1]].files[k[2]].filename = uri}

\* the entries of the input that are not empty
Uris == {event.input[n] : n \in {x \in 1..Len(event.input) : event.input[x] # NoUri}}

\* no URI is given twice in the input
InputDistinct ==
  \A n, x \in 1..Len(event.input) :
    (n # x /\ event.input[n] # NoUri) => event.input[n] # event.input[x]

\* the files of the input granules are the first files of the granules
\* returned, and no file returned is named by an empty entry
MergeKeeps ==
  LET gs == event.config.input_granules IN
    /\ Len(Roster0.granules) = Len(gs)
    /\ \A i \in 1..Len(gs) :
         /\ Len(Roster0.granules[i].files) >= Len(gs[i].files)
         /\ SubSeq(Roster0.granules[i].files, 1, Len(gs[i].files)) = gs[i].files
    /\ FilesNamed(NoUri) = {}

\* C30 as claimed: after addInputFilesToGranules each URI of the input is
\* the filename of at most one file of all the granules, the files of the
\* input granules are kept and no file is added for an empty entry, also
\* when a URI is given more than once in the input.
C30_Claimed_EachUriOnce ==
  (PlanDone /\ Roster0.error = NoError) =>
    /\ MergeKeeps
    /\ \A uri \in Uris : Cardinality(FilesNamed(uri)) <= 1

\* the same for the inputs that give no URI twice
C30_EachUriOnceWhenInputDistinct ==
  (PlanDone /\ Roster0.error = NoError /\ InputDistinct) =>
    /\ MergeKeeps
    /\ \A uri \in Uris : Cardinality(FilesNamed(uri)) = 1

\* a merge that kept a file attached before, skipped its URI and an empty
\* entry, and attached another URI
C30_MergedOnce ==
  /\ PlanDone /\ Roster0.error = NoError /\ InputDistinct
  /\ AttachedUris # {}
  /\ \E n \in 1..Len(event.input) : event.input[n] = NoUri
  /\ ToAttach # <<>>
====
